---- MODULE Spec2Model ----
(***************************************************************************)
(* A model of slogger: the buffered loggers (loggers.py), the IRC bot's    *)
(* dispatcher and callbacks (bot.py), the elasticsearch agent with host    *)
(* failover (search.py), the blocking elasticsearch connection             *)
(* (elasticsearch/core/store.py) and the lazy queryset                     *)
(* (elasticsearch/core/queryset.py).                                       *)
(*                                                                         *)
(* Each component has its own variables and its own specification; a       *)
(* specification leaves the other components' variables unchanged.         *)
(***************************************************************************)
EXTENDS Integers, Sequences, FiniteSets, TLC

VARIABLES
    \* ---- loggers.py: BufferedLogger_Mixin and its two subclasses ----
    buffer,      \* self._buffer: the messages not yet flushed
    nlogged,     \* how many times log() was called; the messages are 1..nlogged
    flights,     \* the flush() generators that have started and not finished
    loop,        \* self.loop (LoopingCall): "scheduled", "waiting" or "stopped"
    sinkCalls,   \* the calls made of the wrapped logger's log: <<message, outcome>>
    cycles,      \* how many times flush() was called (saturates at MaxCycles)
    flushRaised, \* whether a flush() ended by raising
    \* ---- bot.py: LogBot ----
    loggers,     \* self.loggers: the sinks, numbered 1..Len(loggers)
    ignorelist,  \* LogBot.ignorelist: the nicks that are ignored
    clock,       \* what time.time() returns
    loggerCalls, \* per sink, the records its log was called with in the last callback
    lastCb,      \* the last callback: its name, its arguments and what it did
    \* ---- search.py: ESAgent ----
    hostScores,  \* self._hosts: host -> score (0, minus one per recorded failure)
    hostOrder,   \* the order in which iterating the dict self._hosts yields the hosts
    requestLimit,\* self._request_limit
    limitArg,    \* the request_limit argument of the constructor
    req,         \* the request in progress, or the last one made
    nreq,        \* how many requests were made
    nfailed,     \* how many attempts of them were answered by the errback
    \* ---- elasticsearch/core/store.py: ElasticsearchConnection ----
    cluster,     \* per node of self._cluster, how the node answers
    currentNode, \* self._current_node
    calls,       \* per thread, the _request call in progress or the last one
    ncalls,      \* how many _request calls were started
    \* ---- elasticsearch/core/queryset.py: ElasticsearchQueryset ----
    docs,        \* the store's index: <<D>> when it holds the documents D,
                 \* oldest first, <<>> when the index does not exist
    qs,          \* the fields of the queryset
    qlog,        \* the last method called on the queryset, what it did, and
                 \* (seen) the index as the search that filled the cache saw
                 \* it, <<>> while the queryset is DIRTY
    nops,        \* how many calls were made, of the queryset and of the index
    \* ---- elasticsearch/core/utils.py: parse_query, build_query ----
    dictOrder,   \* the order in which a dict yields the keys user, channel, ...
    ucall,       \* the last function called, with its arguments
    uout,        \* what that call returned
    \* ---- loggers.py: MultiChannelFileLogger ----
    channelWrites, \* per key of self._channel_loggers, what its logger wrote
    systemWrites,  \* what was written to self._system_logger
    flog,          \* the last log() call, and the writes as they were before it
    nfile,         \* how many times log() was called
    \* ---- web/view.py: SearchResource ----
    vargs,       \* request.args of the last request
    vcalls,      \* the calls that request made of ESLogLine.objects
    velement,    \* the queryset given to the IndexElement it returned
    nview,       \* how many requests were handled
    \* ---- bot.py: LogBot.signedOn ----
    factoryChannels, \* self.factory.channels: the configured channel list
    ircCalls,        \* the calls signedOn made of the IRC client, in order
    nsign,           \* how many times signedOn was called
    \* ---- elasticsearch/core/models.py: ElasticsearchManager.get ----
    gdocs,       \* the documents in the store's index, oldest first
    gqs,         \* the queryset of the get() call in progress, or of the last one
    gcall,       \* the get() call: where it is, its arguments, what it returned
    nget         \* how many times get() was called

bufVars == <<buffer, nlogged, flights, loop, sinkCalls, cycles, flushRaised>>

botVars == <<loggers, ignorelist, clock, loggerCalls, lastCb>>

agentVars == <<hostScores, hostOrder, requestLimit, limitArg, req, nreq, nfailed>>

connVars == <<cluster, currentNode, calls, ncalls>>

qsVars == <<docs, qs, qlog, nops>>

utilsVars == <<dictOrder, ucall, uout>>

fileVars == <<channelWrites, systemWrites, flog, nfile>>

viewVars == <<vargs, vcalls, velement, nview>>

signVars == <<factoryChannels, ircCalls, nsign>>

getVars == <<gdocs, gqs, gcall, nget>>

vars == <<buffer, nlogged, flights, loop, sinkCalls, cycles, flushRaised,
          loggers, ignorelist, clock, loggerCalls, lastCb,
          hostScores, hostOrder, requestLimit, limitArg, req, nreq, nfailed,
          cluster, currentNode, calls, ncalls,
          docs, qs, qlog, nops,
          dictOrder, ucall, uout,
          channelWrites, systemWrites, flog, nfile,
          vargs, vcalls, velement, nview,
          factoryChannels, ircCalls, nsign,
          gdocs, gqs, gcall, nget>>

\* What the actions of one component leave unchanged: the other components.
exceptBuf == <<botVars, agentVars, connVars, qsVars, utilsVars, fileVars, viewVars, signVars, getVars>>

exceptBot == <<bufVars, agentVars, connVars, qsVars, utilsVars, fileVars, viewVars, signVars, getVars>>

exceptAgent == <<bufVars, botVars, connVars, qsVars, utilsVars, fileVars, viewVars, signVars, getVars>>

exceptConn == <<bufVars, botVars, agentVars, qsVars, utilsVars, fileVars, viewVars, signVars, getVars>>

exceptQs == <<bufVars, botVars, agentVars, connVars, utilsVars, fileVars, viewVars, signVars, getVars>>

exceptUtils == <<bufVars, botVars, agentVars, connVars, qsVars, fileVars, viewVars, signVars, getVars>>

exceptFile == <<bufVars, botVars, agentVars, connVars, qsVars, utilsVars, viewVars, signVars, getVars>>

exceptView == <<bufVars, botVars, agentVars, connVars, qsVars, utilsVars, fileVars, signVars, getVars>>

exceptSign == <<bufVars, botVars, agentVars, connVars, qsVars, utilsVars, fileVars, viewVars, getVars>>

exceptGet == <<bufVars, botVars, agentVars, connVars, qsVars, utilsVars, fileVars, viewVars, signVars>>

\* ------------------------------------------------------------------ bounds
MaxEvents == 3   \* log() calls in a behaviour
MaxCycles == 3   \* the flush counter saturates here
MaxFails == 2    \* the wrapped logger fails at most this often
MaxSinks == 3    \* the longest list of loggers a LogBot is given
MaxClock == 1    \* time.time() takes the values 0..MaxClock
MaxHosts == 3    \* the longest host list an ESAgent is built with
MaxRequests == 2 \* requests made of one ESAgent
MaxNodes == 2    \* the longest cluster an ElasticsearchConnection is given
MaxCalls == 2    \* _request calls made of one ElasticsearchConnection
MaxDocs == 2     \* the most documents the store's index holds
MaxOps == 3      \* calls made of one ElasticsearchQueryset and of its index
MaxPairs == 2    \* the most keyword arguments given to parse_query
MaxChannels == 2 \* the longest channel list a MultiChannelFileLogger is given
MaxWrites == 2   \* log() calls made of one MultiChannelFileLogger
MaxViews == 2    \* requests handled by one SearchResource
MaxJoinList == 3 \* the longest channel list a LogBotFactory is given
MaxSignOns == 2  \* signedOn calls in a behaviour
MaxGets == 2     \* get() calls made of one ElasticsearchManager

\* ------------------------------------------------------------------ helpers
Range(s) == {s[i] : i \in 1..Len(s)}

RemoveAt(s, k) == [i \in 1..(Len(s) - 1) |-> IF i < k THEN s[i] ELSE s[i + 1]]

Min(a, b) == IF a < b THEN a ELSE b

\* ------------------------------------------------- components at rest
\* A specification of one component holds the others at these values.
NoCallback ==
    [name |-> "none", writes |-> 0, raisedAt |-> 0, record |-> <<>>,
     user |-> <<>>, channel |-> <<>>, msg |-> <<>>, ignored |-> FALSE]

BotIdle ==
    /\ loggers = <<>>
    /\ ignorelist = <<>>
    /\ clock = 0
    /\ loggerCalls = <<>>
    /\ lastCb = NoCallback

NoRequest ==
    [state |-> "idle", hosts_to_try |-> <<>>, attempts |-> <<>>,
     first |-> <<>>, before |-> <<>>, down |-> {}, prevFailed |-> {}]

AgentIdle ==
    /\ hostScores = <<>>
    /\ hostOrder = <<>>
    /\ requestLimit = 0
    /\ limitArg = <<>>
    /\ req = NoRequest
    /\ nreq = 0
    /\ nfailed = 0

\* The threads that use the one ElasticsearchConnection of the class-level
\* client: the reactor thread and a worker thread of the reactor's pool.
Threads == {"reactor", "worker"}

NoCall ==
    [pc |-> "idle", origin |-> "none", i |-> 0, next_node |-> 0, loaded |-> 0,
     attempts |-> <<>>, result |-> "none"]
\* (next_node and loaded are locals of _get_node: 0 when not in use)

ConnIdle ==
    /\ cluster = <<>>
    /\ currentNode = 0
    /\ calls = [t \in Threads |-> NoCall]
    /\ ncalls = 0

\* What a method returned or raised; v is the integer or document returned.
Ret(kind, v) == [kind |-> kind, v |-> v]

NoOp ==
    [op |-> "none", before |-> FALSE, searches |-> 0, ok |-> TRUE, evals |-> 0,
     arg |-> <<>>, ret |-> Ret("none", 0), pre |-> <<>>, seen |-> <<>>]

QsIdle ==
    /\ docs = <<>>
    /\ qs = <<>>
    /\ qlog = NoOp
    /\ nops = 0

NoUtilsCall == [fn |-> "none"]

UtilsIdle ==
    /\ dictOrder = <<>>
    /\ ucall = NoUtilsCall
    /\ uout = <<>>

NoLog == [fn |-> "none"]

FileIdle ==
    /\ channelWrites = <<>>
    /\ systemWrites = <<>>
    /\ flog = NoLog
    /\ nfile = 0

ViewIdle ==
    /\ vargs = <<>>
    /\ vcalls = <<>>
    /\ velement = <<>>
    /\ nview = 0

SignIdle ==
    /\ factoryChannels = <<>>
    /\ ircCalls = <<>>
    /\ nsign = 0

NoGet == [pc |-> "idle", args |-> <<>>, ret |-> Ret("none", 0)]

GetIdle ==
    /\ gdocs = <<>>
    /\ gqs = <<>>
    /\ gcall = NoGet
    /\ nget = 0

BufIdle ==
    /\ buffer = <<>>
    /\ nlogged = 0
    /\ flights = <<>>
    /\ loop = "stopped"
    /\ sinkCalls = <<>>
    /\ cycles = 0
    /\ flushRaised = FALSE

\* ============================================================ loggers.py
\* The buffered loggers, from construction on. (The stray expression statement
\* at loggers.py line 27, which names undefined variables, is not modelled.)

\* A log that puts the message at the front of the buffer.
BufferedLogAtFront(buf, msg) == <<msg>> \o buf

\* BufferedMultiChannelFileLogger.log / BufferedSearchLogger.log:
\* self._buffer.append((message_time, message, user, channel))
BufferedLog(buf, msg) == Append(buf, msg)

\* A swap that forgets `self._buffer = []`.
FlushSwapKeepsBuffer(buf) == [newbuffer |-> buf, buffer |-> buf]

\* flush, up to the loop: newbuffer is a copy of the buffer (or [] when the
\* buffer is empty or None), and the buffer is a fresh empty list.
FlushSwap(buf) == [newbuffer |-> buf, buffer |-> <<>>]

\* A timer that reschedules itself without waiting for flush's Deferred.
LoopAfterCallNoWait(fired) == "scheduled"

\* LoopingCall(self.flush): after calling flush it reschedules at once when the
\* Deferred flush returned has already fired, and otherwise waits for it.
LoopAfterCall(fired) == IF fired THEN "scheduled" ELSE "waiting"

\* flush's except clause: `log` is the module twisted.python.log, so the call
\* log('FILE LOGGING FAILED ...') raises TypeError before the append is
\* reached: the clause leaves the buffer as it is and raises.
ExceptClause(buf, msg) == [buffer |-> buf, raised |-> TRUE]

NumFails == Cardinality({i \in 1..Len(sinkCalls) : sinkCalls[i][2] = "fail"})

BufInit ==
    /\ buffer = <<>>
    /\ nlogged = 0
    /\ flights = <<>>
    \* loop.start(interval) has called flush once, on the empty buffer
    /\ loop = "scheduled"
    /\ cycles = 1
    /\ sinkCalls = <<>>
    /\ flushRaised = FALSE
    /\ BotIdle
    /\ AgentIdle
    /\ ConnIdle
    /\ QsIdle
    /\ UtilsIdle
    /\ FileIdle
    /\ ViewIdle
    /\ SignIdle
    /\ GetIdle

\* The bot (reactor thread) logs one more message.
Log ==
    /\ nlogged < MaxEvents
    /\ nlogged' = nlogged + 1
    /\ buffer' = BufferedLog(buffer, nlogged + 1)
    /\ UNCHANGED <<flights, loop, sinkCalls, cycles, flushRaised>>
    /\ UNCHANGED exceptBuf

\* The interval elapses: the LoopingCall calls flush(), which runs up to its
\* first yield (the first deferToThread) or, on an empty buffer, to its end.
Tick ==
    /\ loop = "scheduled"
    /\ LET sw == FlushSwap(buffer)
           fired == sw.newbuffer = <<>>
       IN /\ buffer' = sw.buffer
          /\ flights' = IF fired THEN flights
                        ELSE Append(flights, [batch |-> sw.newbuffer, i |-> 1,
                                              st |-> "running"])
          /\ loop' = LoopAfterCall(fired)
    /\ cycles' = Min(cycles + 1, MaxCycles)
    /\ UNCHANGED <<nlogged, sinkCalls, flushRaised>>
    /\ UNCHANGED exceptBuf

\* A worker thread runs super().log(*msg) for the current message of flight k;
\* the wrapped logger returns or raises.
WorkerLog(k) ==
    /\ flights[k].st = "running"
    /\ \E outcome \in {"ok", "fail"} :
          /\ outcome = "fail" => NumFails < MaxFails
          /\ sinkCalls' = Append(sinkCalls, <<flights[k].batch[flights[k].i], outcome>>)
          /\ flights' = [flights EXCEPT ![k].st = outcome]
    /\ UNCHANGED <<buffer, nlogged, loop, cycles, flushRaised>>
    /\ UNCHANGED exceptBuf

\* The reactor resumes flight k after a call that returned: the next message
\* goes to a worker thread, or the generator ends and flush's Deferred fires.
ResumeOk(k) ==
    /\ flights[k].st = "ok"
    /\ IF flights[k].i < Len(flights[k].batch)
       THEN /\ flights' = [flights EXCEPT ![k].i = @ + 1, ![k].st = "running"]
            /\ UNCHANGED loop
       ELSE /\ flights' = RemoveAt(flights, k)
            /\ loop' = IF loop = "stopped" THEN "stopped" ELSE "scheduled"
    /\ UNCHANGED <<buffer, nlogged, sinkCalls, cycles, flushRaised>>
    /\ UNCHANGED exceptBuf

\* The reactor resumes flight k after a call that raised: the except clause
\* runs. When it raises, the generator ends, flush's Deferred fails and the
\* LoopingCall's errback stops the loop (running = False).
ResumeFail(k) ==
    /\ flights[k].st = "fail"
    /\ LET h == ExceptClause(buffer, flights[k].batch[flights[k].i])
       IN /\ buffer' = h.buffer
          /\ IF h.raised
             THEN /\ flights' = RemoveAt(flights, k)
                  /\ loop' = "stopped"
                  /\ flushRaised' = TRUE
             ELSE /\ UNCHANGED flushRaised
                  /\ IF flights[k].i < Len(flights[k].batch)
                     THEN /\ flights' = [flights EXCEPT ![k].i = @ + 1,
                                                        ![k].st = "running"]
                          /\ UNCHANGED loop
                     ELSE /\ flights' = RemoveAt(flights, k)
                          /\ loop' = IF loop = "stopped" THEN "stopped"
                                     ELSE "scheduled"
    /\ UNCHANGED <<nlogged, sinkCalls, cycles>>
    /\ UNCHANGED exceptBuf

BufNext ==
    \/ Log
    \/ Tick
    \/ \E k \in 1..Len(flights) : WorkerLog(k)
    \/ \E k \in 1..Len(flights) : ResumeOk(k)
    \/ \E k \in 1..Len(flights) : ResumeFail(k)

BufSpec == BufInit /\ [][BufNext]_vars

\* Under the scheduling of the reactor and the thread pool every due timer
\* call, queued worker call and pending resumption eventually runs.
FairBufSpec ==
    /\ BufInit
    /\ [][BufNext]_vars
    /\ WF_vars(Tick)
    /\ WF_vars(\E k \in 1..Len(flights) : WorkerLog(k))
    /\ WF_vars(\E k \in 1..Len(flights) : ResumeOk(k))
    /\ WF_vars(\E k \in 1..Len(flights) : ResumeFail(k))

\* ---- what the claims about the buffered loggers speak of
Calls(e) == Cardinality({i \in 1..Len(sinkCalls) : sinkCalls[i][1] = e})

Delivered(e) == \E i \in 1..Len(sinkCalls) : sinkCalls[i] = <<e, "ok">>

Failed(e) == \E i \in 1..Len(sinkCalls) : sinkCalls[i] = <<e, "fail">>

InBuffer(e) == e \in Range(buffer)

\* C1: a message that is still in the buffer (no flush has taken it) has caused
\* no call of the wrapped logger's log; and while the wrapped logger has never
\* failed, no message is passed to it twice, and once no flush is in flight
\* every message a flush has taken has been passed to it exactly once.
C1_BufferedThenOncePerEvent ==
    /\ \A e \in 1..nlogged : InBuffer(e) => Calls(e) = 0
    /\ NumFails = 0 => \A e \in 1..nlogged : Calls(e) <= 1
    /\ (NumFails = 0 /\ flights = <<>>) =>
           \A e \in 1..nlogged : ~InBuffer(e) => Calls(e) = 1

\* C1's case: two messages or more were buffered, a flush took them and has
\* finished without a failure, and each was passed on once.
C1_Witness ==
    /\ nlogged >= 2
    /\ buffer = <<>>
    /\ flights = <<>>
    /\ NumFails = 0
    /\ \A e \in 1..nlogged : Calls(e) = 1

\* C2: once the flush has returned, a message for which the wrapped logger
\* failed (and which was not delivered since) is in the buffer again.
C2_FailedEventRequeued ==
    flights = <<>> =>
        \A e \in 1..nlogged : (Failed(e) /\ ~Delivered(e)) => InBuffer(e)

\* C3: at-least-once delivery: every message passed to log() is eventually
\* delivered to the wrapped logger (the wrapped logger fails at most MaxFails
\* times; timer, worker threads and resumptions are scheduled fairly).
C3_EventuallyDelivered ==
    \A e \in 1..MaxEvents : (e <= nlogged) ~> Delivered(e)

\* C4: with a wrapped logger that has failed every call made of it, after two
\* flush cycles or more (none in flight) the buffer holds every message that
\* was logged.
C4_AlwaysFailingSinkKeepsAll ==
    (/\ cycles >= 2
     /\ flights = <<>>
     /\ \A i \in 1..Len(sinkCalls) : sinkCalls[i][2] = "fail") =>
        \A e \in 1..nlogged : InBuffer(e)

\* C5: a failure of the wrapped logger does not leave flush as an exception
\* and does not stop the periodic timer.
C5_FailureContained == ~flushRaised /\ loop # "stopped"

\* C6: at most one flush is in flight, and while one is in flight the timer
\* is not scheduled to start another.
C6_OneFlushInFlight ==
    /\ Len(flights) <= 1
    /\ Len(flights) = 1 => loop # "scheduled"

\* C6's case: a flush is in flight (a worker call pending) while the buffer
\* already holds a message for the next one.
C6_Witness ==
    /\ Len(flights) = 1
    /\ flights[1].st = "running"
    /\ buffer # <<>>
    /\ loop = "waiting"

\* ================================================================ bot.py
\* A string is a sequence of tokens, each a piece of text without blanks,
\* ':' or '!' in it, or one of the tokens " ", ":" and "!".

Nickname == <<"slogger">>   \* LogBot.nickname = settings.NICK[:16]

Nicks == {<<"alice">>, <<"bob">>}

\* The `user` argument of privmsg, action and ctcpQuery_ACTION: a nick, or
\* nick!ident@host.
Hostmasks == {<<"alice">>, <<"bob", "!", "host">>}

Channels == {<<"#room">>, Nickname}

Msgs ==
    {<<"hi">>,
     <<"slogger", ":", " ", "hi">>,
     <<" ">>,
     <<"ignore">>,
     <<"slogger", ":", "IGNORE", " ", "bob">>,
     <<"unignore", " ", "bob">>}

\* The texts of actions (/me ...).
ActionTexts == {<<"waves">>, <<"slogger", ":", " ", "hi">>}

\* The ignore lists a deployment may configure (settings.IGNORED_USERS).
ConfiguredIgnoreLists == {<<>>, << <<"bob">> >>}

StartsWith(s, p) == Len(s) >= Len(p) /\ SubSeq(s, 1, Len(p)) = p

\* user.split('!', 1)[0]
SplitBang(u) ==
    IF \E i \in 1..Len(u) : u[i] = "!"
    THEN LET i == CHOOSE i \in 1..Len(u) :
                      u[i] = "!" /\ \A j \in 1..(i - 1) : u[j] # "!"
         IN SubSeq(u, 1, i - 1)
    ELSE u

\* s.strip()
Strip(s) ==
    IF \A i \in 1..Len(s) : s[i] = " "
    THEN <<>>
    ELSE LET a == CHOOSE i \in 1..Len(s) :
                      s[i] # " " /\ \A j \in 1..(i - 1) : s[j] = " "
             b == CHOOSE i \in 1..Len(s) :
                      s[i] # " " /\ \A j \in (i + 1)..Len(s) : s[j] = " "
         IN SubSeq(s, a, b)

\* s.split(None, 1) of a stripped, non-empty s: the first word, and the rest
\* after the blanks that follow it (<<>> when there is no rest: the list has
\* one element and split[1] raises IndexError, so args is None).
SplitCommand(s) ==
    IF \E i \in 1..Len(s) : s[i] = " "
    THEN LET i == CHOOSE i \in 1..Len(s) :
                      s[i] = " " /\ \A j \in 1..(i - 1) : s[j] # " "
             k == CHOOSE k \in (i + 1)..Len(s) :
                      s[k] # " " /\ \A j \in i..(k - 1) : s[j] = " "
         IN [command |-> SubSeq(s, 1, i - 1), args |-> SubSeq(s, k, Len(s))]
    ELSE [command |-> s, args |-> <<>>]

\* command.lower()
Lower(s) ==
    [i \in 1..Len(s) |-> IF s[i] = "IGNORE" THEN "ignore" ELSE s[i]]

InList(x, l) == \E i \in 1..Len(l) : l[i] = x

\* do_ignore: append unless already in the list.
DoIgnore(ignore, args) == IF InList(args, ignore) THEN ignore ELSE Append(ignore, args)

\* do_unignore: list.remove takes out the first occurrence.
DoUnignore(ignore, args) ==
    IF InList(args, ignore)
    THEN LET i == CHOOSE i \in 1..Len(ignore) :
                      ignore[i] = args /\ \A j \in 1..(i - 1) : ignore[j] # args
         IN RemoveAt(ignore, i)
    ELSE ignore

\* handle_command, as privmsg calls it (channel == self.nickname, so reply_to
\* is set): the ignore list it leaves. An empty message raises IndexError at
\* split[0]; the replies it sends and the searches it makes are not state of
\* this model.
HandleCommand(ignore, user, msg) ==
    LET m1 == IF StartsWith(msg, Nickname \o <<":">>)
              THEN SubSeq(msg, Len(Nickname) + 2, Len(msg))
              ELSE msg
        m2 == Strip(m1)
    IN IF m2 = <<>>
       THEN ignore
       ELSE LET sp == SplitCommand(m2)
                target == IF sp.args = <<>> THEN user ELSE sp.args
            IN IF Lower(sp.command) = <<"ignore">> THEN DoIgnore(ignore, target)
               ELSE IF Lower(sp.command) = <<"unignore">> THEN DoUnignore(ignore, target)
               ELSE ignore

\* writeLog's loop over n loggers, of which logger f raises (f = 0: none
\* does): the records each logger's log is called with. The exception leaves
\* the loop, so the loggers after f are not called.
WriteLogCalls(n, rec, f) ==
    [i \in 1..n |-> IF f = 0 \/ i <= f THEN <<rec>> ELSE <<>>]

\* A privmsg that logs whatever it receives.
PrivmsgLogsAlways(ignore, user, channel, msg) == TRUE

\* privmsg: whether the message goes to writeLog (user is the nick, split off).
PrivmsgLogs(ignore, user, channel, msg) ==
    ~(\/ channel = Nickname
      \/ InList(user, ignore)
      \/ StartsWith(msg, Nickname \o <<":">>))

\* writeLog(message, user, channel), as the one dispatch callback `name`
\* makes on the logger list lg: msg = (time.time(), message, user, channel)
\* goes to each logger.
Dispatch(name, lg, message, user, channel, f, cbUser, cbMsg) ==
    LET rec == [time |-> clock, message |-> message, user |-> user,
                channel |-> channel]
    IN /\ loggerCalls' = WriteLogCalls(Len(lg), rec, f)
       /\ lastCb' = [name |-> name, writes |-> 1, raisedAt |-> f, record |-> rec,
                     user |-> cbUser, channel |-> channel, msg |-> cbMsg,
                     ignored |-> InList(cbUser, ignorelist)]

\* A callback that does not call writeLog.
NoDispatch(name, cbUser, channel, cbMsg) ==
    /\ loggerCalls' = [i \in 1..Len(loggers) |-> <<>>]
    /\ lastCb' = [name |-> name, writes |-> 0, raisedAt |-> 0, record |-> <<>>,
                  user |-> cbUser, channel |-> channel, msg |-> cbMsg,
                  ignored |-> InList(cbUser, ignorelist)]

\* self.loggers as assigned from outside (test_bot.py does), until
\* connectionMade assigns its three loggers.
BotInit ==
    /\ loggers \in {[i \in 1..n |-> i] : n \in 0..MaxSinks}
    /\ ignorelist \in ConfiguredIgnoreLists
    /\ clock = 0
    /\ loggerCalls = [i \in 1..Len(loggers) |-> <<>>]
    /\ lastCb = NoCallback
    /\ BufIdle
    /\ AgentIdle
    /\ ConnIdle
    /\ QsIdle
    /\ UtilsIdle
    /\ FileIdle
    /\ ViewIdle
    /\ SignIdle
    /\ GetIdle

Tock ==
    /\ clock < MaxClock
    /\ clock' = clock + 1
    /\ UNCHANGED <<loggers, ignorelist, loggerCalls, lastCb>>
    /\ UNCHANGED exceptBot

\* connectionMade: PyLogger, BufferedMultiChannelFileLogger and
\* BufferedSearchLogger are created, then the connection is logged.
ConnectionMade ==
    /\ loggers' = <<1, 2, 3>>
    /\ \E f \in 0..3 :
          Dispatch("connectionMade", <<1, 2, 3>>, <<"CONNECTION ESTABLISHED">>,
                   <<"SYSTEM">>, <<"SYSTEM_LOG">>, f, <<>>, <<>>)
    /\ UNCHANGED <<ignorelist, clock>>
    /\ UNCHANGED exceptBot

ConnectionLost ==
    /\ \E reason \in {<<"closed">>}, f \in 0..Len(loggers) :
          Dispatch("connectionLost", loggers, <<"CONNECTION LOST: ">> \o reason,
                   <<"SYSTEM">>, <<"SYSTEM_LOG">>, f, <<>>, <<>>)
    /\ UNCHANGED <<loggers, ignorelist, clock>>
    /\ UNCHANGED exceptBot

Joined ==
    /\ \E channel \in Channels, f \in 0..Len(loggers) :
          Dispatch("joined", loggers, <<"JOINED CHANNEL (">> \o channel \o <<")">>,
                   <<"SYSTEM">>, <<"SYSTEM_LOG">>, f, <<>>, <<>>)
    /\ UNCHANGED <<loggers, ignorelist, clock>>
    /\ UNCHANGED exceptBot

\* privmsg: the message is logged or not; then, unless the user is ignored, a
\* private message is handled as a command (writeLog is not called on that
\* path, so an exception of a logger never skips a command).
Privmsg ==
    \E hostmask \in Hostmasks, channel \in Channels, msg \in Msgs :
        LET user == SplitBang(hostmask)
        IN /\ IF PrivmsgLogs(ignorelist, user, channel, msg)
              THEN \E f \in 0..Len(loggers) :
                       Dispatch("privmsg", loggers, msg, user, channel, f,
                                user, msg)
              ELSE NoDispatch("privmsg", user, channel, msg)
           /\ ignorelist' = IF ~InList(user, ignorelist) /\ channel = Nickname
                            THEN HandleCommand(ignorelist, user, msg)
                            ELSE ignorelist
           /\ UNCHANGED <<loggers, clock>>
           /\ UNCHANGED exceptBot

\* userJoined and userLeft log with user None. What they do afterwards (the
\* private message about the last exit, the .lastexit file) is not state of
\* this model.
UserJoined ==
    /\ \E user \in Nicks \cup {Nickname}, channel \in Channels,
          f \in 0..Len(loggers) :
          Dispatch("userJoined", loggers, user \o <<" joined the channel.">>,
                   <<>>, channel, f, user, <<>>)
    /\ UNCHANGED <<loggers, ignorelist, clock>>
    /\ UNCHANGED exceptBot

UserLeft ==
    /\ \E user \in Nicks \cup {Nickname}, channel \in Channels,
          f \in 0..Len(loggers) :
          Dispatch("userLeft", loggers, user \o <<" left the channel.">>, <<>>,
                   channel, f, user, <<>>)
    /\ UNCHANGED <<loggers, ignorelist, clock>>
    /\ UNCHANGED exceptBot

Action ==
    /\ \E hostmask \in Hostmasks, channel \in Channels, msg \in ActionTexts,
          f \in 0..Len(loggers) :
          Dispatch("action", loggers, msg, SplitBang(hostmask), channel, f,
                   SplitBang(hostmask), msg)
    /\ UNCHANGED <<loggers, ignorelist, clock>>
    /\ UNCHANGED exceptBot

IrcNICK ==
    /\ \E prefix \in Hostmasks, new \in Nicks, f \in 0..Len(loggers) :
          Dispatch("irc_NICK", loggers,
                   SplitBang(prefix) \o <<" CHANGED NICK TO ">> \o new,
                   <<"SYSTEM">>, <<"SYSTEM_LOG">>, f, SplitBang(prefix), <<>>)
    /\ UNCHANGED <<loggers, ignorelist, clock>>
    /\ UNCHANGED exceptBot

CtcpQueryACTION ==
    /\ \E hostmask \in Hostmasks, channel \in Channels, data \in ActionTexts,
          f \in 0..Len(loggers) :
          LET user == SplitBang(hostmask)
          IN Dispatch("ctcpQuery_ACTION", loggers,
                      <<"* ">> \o user \o <<" ">> \o data,
                      user, channel, f, user, data)
    /\ UNCHANGED <<loggers, ignorelist, clock>>
    /\ UNCHANGED exceptBot

BotNext ==
    \/ Tock
    \/ ConnectionMade
    \/ ConnectionLost
    \/ Joined
    \/ Privmsg
    \/ UserJoined
    \/ UserLeft
    \/ Action
    \/ IrcNICK
    \/ CtcpQueryACTION

BotSpec == BotInit /\ [][BotNext]_vars

\* C7: when a logger's log raises for an event, every other configured logger
\* still receives that event.
C7_DispatcherIsolation ==
    (lastCb.writes = 1 /\ lastCb.raisedAt # 0) =>
        \A i \in 1..Len(loggers) :
            i # lastCb.raisedAt => loggerCalls[i] = <<lastCb.record>>

\* C8: a writeLog delivers the event to every logger of the list exactly once
\* and with the identical record, for any list of loggers: no logger is called
\* more than once or with anything but the one record writeLog built, and
\* after a writeLog every logger of the list has been called with it.
C8_FanOutOncePerSink ==
    /\ \A i \in 1..Len(loggers) :
          /\ Len(loggerCalls[i]) <= 1
          /\ \A j \in 1..Len(loggerCalls[i]) : loggerCalls[i][j] = lastCb.record
    /\ lastCb.writes = 1 =>
          \A i \in 1..Len(loggers) : loggerCalls[i] = <<lastCb.record>>

\* C9 as stated: every callback dispatches exactly one event, whatever the
\* actor, the channel and the text are.
C9_OneEventPerCallback == lastCb.name # "none" => lastCb.writes = 1

\* C9 as amended: every callback dispatches exactly one event, except privmsg
\* for a private message (channel is the bot's nick), a message of an ignored
\* user or a message that starts with "<nick>:", which dispatches none.
C9_OneEventUnlessFilteredPrivmsg ==
    lastCb.name # "none" =>
        lastCb.writes =
            IF /\ lastCb.name = "privmsg"
               /\ \/ lastCb.channel = Nickname
                  \/ lastCb.ignored
                  \/ StartsWith(lastCb.msg, Nickname \o <<":">>)
            THEN 0
            ELSE 1

\* C9's case: privmsg has run for a channel message of an ignored user, and
\* dispatched nothing.
C9_Witness ==
    /\ lastCb.name = "privmsg"
    /\ lastCb.ignored
    /\ lastCb.channel # Nickname
    /\ lastCb.writes = 0

\* ============================================================= search.py
\* The hosts of an ESAgent are numbered 1..n in the order of the list given to
\* the constructor.

Reverse(s) == [i \in 1..Len(s) |-> s[Len(s) + 1 - i]]

\* The orders in which a dict of n hosts may yield its keys.
DictOrders(n) ==
    {p \in [1..n -> 1..n] : \A i, j \in 1..n : p[i] = p[j] => i = j}

\* ESAgent.__init__: `not request_limit or request_limit < 1` means every
\* host. The argument is <<>> for None and <<k>> for the integer k.
RequestLimit(limit, n) ==
    IF limit = <<>> THEN n
    ELSE IF limit[1] = 0 \/ limit[1] < 1 THEN n
    ELSE limit[1]

\* sorted(self._hosts, key=lambda host: self._hosts[host]): ascending by score;
\* the sort is stable, so hosts of equal score stay in the dict's order.
SortedHosts(order, scores) ==
    LET n == Len(order)
        rank(p) == Cardinality({q \in 1..n :
                       \/ scores[order[q]] < scores[order[p]]
                       \/ scores[order[q]] = scores[order[p]] /\ q < p}) + 1
    IN [r \in 1..n |-> order[CHOOSE p \in 1..n : rank(p) = r]]

\* A request that ignores self._request_limit.
TruncateNever(s, limit) == s

\* hosts_to_try[:self._request_limit]
Truncate(s, limit) == SubSeq(s, 1, Min(limit, Len(s)))

\* _request_one_host requests from hosts_to_try[-1].
HostToRequest(hosts_to_try) == hosts_to_try[Len(hosts_to_try)]

\* _request_failed_callback: hosts_to_try.pop(0) is the host whose score is
\* decremented and that leaves the list.
PoppedHost(hosts_to_try) == hosts_to_try[1]

\* A callback that takes two off the score.
PenaliseByTwo(scores, host) == [scores EXCEPT ![host] = @ - 2]

\* _request_failed_callback: self._hosts[host] -= 1
Penalise(scores, host) == [scores EXCEPT ![host] = @ - 1]

AgentInit ==
    /\ \E n \in 1..MaxHosts :
          /\ hostScores = [h \in 1..n |-> 0]
          /\ hostOrder \in DictOrders(n)
          /\ \E limit \in {<<>>} \cup {<<k>> : k \in -1..n} :
                /\ limitArg = limit
                /\ requestLimit = RequestLimit(limit, n)
    /\ req = NoRequest
    /\ nreq = 0
    /\ nfailed = 0
    /\ BufIdle
    /\ BotIdle
    /\ ConnIdle
    /\ QsIdle
    /\ UtilsIdle
    /\ FileIdle
    /\ ViewIdle
    /\ SignIdle
    /\ GetIdle

\* The hosts that were requested and failed in the course of request r: every
\* attempt but the last was answered by the errback, and so was the last when
\* the request failed.
FailedHosts(r) ==
    {r.attempts[k] : k \in {j \in 1..Len(r.attempts) :
                              j < Len(r.attempts) \/ r.state = "failed"}}

\* ESAgent.request, one request at a time: the hosts in `down` fail at
\* transport level for the whole request, the others answer.
Request ==
    /\ req.state # "pending"
    /\ nreq < MaxRequests
    /\ \E down \in SUBSET (1..Len(hostOrder)) :
          LET hosts_to_try ==
                  Truncate(SortedHosts(hostOrder, hostScores), requestLimit)
          IN req' = [state |-> "pending",
                     hosts_to_try |-> hosts_to_try,
                     attempts |-> <<HostToRequest(hosts_to_try)>>,
                     first |-> hosts_to_try,
                     before |-> hostScores,
                     down |-> down,
                     prevFailed |-> FailedHosts(req)]
    /\ nreq' = nreq + 1
    /\ UNCHANGED <<hostScores, hostOrder, requestLimit, limitArg, nfailed>>
    /\ UNCHANGED exceptAgent

\* The host requested answers: the Deferred fires with the response.
RequestSucceeds ==
    /\ req.state = "pending"
    /\ req.attempts[Len(req.attempts)] \notin req.down
    /\ req' = [req EXCEPT !.state = "ok"]
    /\ UNCHANGED <<hostScores, hostOrder, requestLimit, limitArg, nreq, nfailed>>
    /\ UNCHANGED exceptAgent

\* The host requested fails: _request_failed_callback.
RequestFails ==
    /\ req.state = "pending"
    /\ req.attempts[Len(req.attempts)] \in req.down
    /\ LET popped == PoppedHost(req.hosts_to_try)
           rest == Tail(req.hosts_to_try)
       IN /\ hostScores' = Penalise(hostScores, popped)
          /\ req' = IF Len(rest) > 0
                    THEN [req EXCEPT !.hosts_to_try = rest,
                                     !.attempts = Append(@, HostToRequest(rest))]
                    ELSE [req EXCEPT !.hosts_to_try = rest, !.state = "failed"]
    /\ nfailed' = nfailed + 1
    /\ UNCHANGED <<hostOrder, requestLimit, limitArg, nreq>>
    /\ UNCHANGED exceptAgent

AgentNext ==
    \/ Request
    \/ RequestSucceeds
    \/ RequestFails

AgentSpec == AgentInit /\ [][AgentNext]_vars

\* The hosts in the order the agent means to try them: hosts_to_try is held
\* "in the reverse order (last to first)".
RankingOrder(first) == Reverse(first)

\* How many hosts at the head of the ranking fail.
LeadingDown(rank, down) ==
    Cardinality({k \in 1..Len(rank) : \A i \in 1..k : rank[i] \in down})

\* C10: when the first K hosts in ranking order fail and the (K+1)-th answers,
\* the request succeeds after exactly K+1 attempts, one per host in ranking
\* order, and exactly those K hosts have their scores decremented by 1.
C10_FailoverAttemptsAndScores ==
    req.state \in {"ok", "failed"} =>
        LET rank == RankingOrder(req.first)
            K == LeadingDown(rank, req.down)
        IN K < Len(rank) =>
              /\ req.state = "ok"
              /\ req.attempts = SubSeq(rank, 1, K + 1)
              /\ \A h \in 1..Len(hostOrder) :
                    hostScores[h] =
                        req.before[h] -
                        (IF \E i \in 1..K : rank[i] = h THEN 1 ELSE 0)

\* C11: the store client tries all selected hosts before failing: within one
\* request no host is attempted twice, and the request fails only if every
\* selected host failed (here for ESAgent.request).
C11_TriesAllSelectedHosts ==
    /\ \A j, k \in 1..Len(req.attempts) : req.attempts[j] = req.attempts[k] => j = k
    /\ req.state = "failed" => Range(req.first) \subseteq req.down

\* C16: if host H was requested and failed during a request and there are at
\* least two hosts, the first attempt of the following request is not made
\* against H.
C16_NextRequestTriesAnotherHostFirst ==
    (Len(hostOrder) >= 2 /\ Len(req.attempts) >= 1) =>
        req.attempts[1] \notin req.prevFailed

\* ================================================ elasticsearch/core/store.py
\* ElasticsearchConnection: the nodes of self._cluster are numbered 1..n, and
\* each node answers every request in one way.

\* How a node answers: a response body without an error field, no response
\* (connection refused, timeout), a response body with a non-empty top-level
\* error field, or a response body that is not JSON.
NodeModes == {"ok", "down", "error", "malformed"}

\* The thread a store request runs on, by what caused it.
\* BufferedLogger_Mixin.flush: threads.deferToThread(self.log, ...)
FlushThread == "worker"

\* LogBot.do_search: list(ESLogLine.objects.filter(query)) in the callback
SearchCommandThread == "reactor"

\* LogBot._pm_user_with_last_left: deferToThread(getQueryset, ...) only builds
\* the lazy queryset; the callback buildSubstr calls queryset.count() back on
\* the reactor thread.
MessagesCommandThread == "reactor"

\* FacetedMessageElement.__init__: self._queryset.count() while rendering
ViewThread == "reactor"

Origins == {"flush", "search", "messages", "ui"}

ThreadOf(origin) ==
    CASE origin = "flush" -> FlushThread
      [] origin = "search" -> SearchCommandThread
      [] origin = "messages" -> MessagesCommandThread
      [] origin = "ui" -> ViewThread

\* _get_node, first statement: next_node = self._current_node % len(cluster)
NextNode(current, n) == current % n

\* A loop body that retries after a response with an error field.
AfterAttemptRetryError(mode, i, n) ==
    IF mode \in {"down", "error"}
    THEN IF i < n THEN [pc |-> "get_node", result |-> "none"]
                  ELSE [pc |-> "done", result |-> "NoNodesLeft"]
    ELSE IF mode = "malformed" THEN [pc |-> "done", result |-> "ValueError"]
    ELSE [pc |-> "done", result |-> "response"]

\* _request's loop body after conn.request(...) on the i-th of n iterations:
\* an exception inside the try is recorded and the loop continues (and falls
\* through to `raise NoNodesLeft` after the last iteration); otherwise the
\* else clause runs json.loads and _validate_response outside the try, so
\* what they raise leaves _request.
AfterAttempt(mode, i, n) ==
    CASE mode = "down" ->
            IF i < n THEN [pc |-> "get_node", result |-> "none"]
                     ELSE [pc |-> "done", result |-> "NoNodesLeft"]
      [] mode = "malformed" -> [pc |-> "done", result |-> "ValueError"]
      [] mode = "error" -> [pc |-> "done", result |-> "ElasticsearchException"]
      [] mode = "ok" -> [pc |-> "done", result |-> "response"]

\* ElasticsearchConnection.__init__: a cluster of n >= 1 nodes and
\* self._current_node = random.randint(0, len(self._cluster)).
ConnInit ==
    /\ \E n \in 1..MaxNodes :
          /\ cluster \in [1..n -> NodeModes]
          /\ currentNode \in 0..n
    /\ calls = [t \in Threads |-> NoCall]
    /\ ncalls = 0
    /\ BufIdle
    /\ BotIdle
    /\ AgentIdle
    /\ QsIdle
    /\ UtilsIdle
    /\ FileIdle
    /\ ViewIdle
    /\ SignIdle
    /\ GetIdle

\* A thread calls ElasticsearchConnection._request and enters the loop.
ConnRequest(t) ==
    /\ Len(cluster) >= 1
    /\ calls[t].pc \in {"idle", "done"}
    /\ ncalls < MaxCalls
    /\ \E origin \in Origins :
          /\ ThreadOf(origin) = t
          /\ calls' = [calls EXCEPT ![t] =
                          [pc |-> "get_node", origin |-> origin, i |-> 1,
                           next_node |-> 0, loaded |-> 0, attempts |-> <<>>,
                           result |-> "none"]]
    /\ ncalls' = ncalls + 1
    /\ UNCHANGED <<cluster, currentNode>>
    /\ UNCHANGED exceptConn

\* _get_node: next_node = self._current_node % len(self._cluster)
GetNode(t) ==
    /\ calls[t].pc = "get_node"
    /\ calls' = [calls EXCEPT ![t].next_node = NextNode(currentNode, Len(cluster)),
                              ![t].pc = "load"]
    /\ UNCHANGED <<cluster, currentNode, ncalls>>
    /\ UNCHANGED exceptConn

\* _get_node: self._current_node += 1 reads the attribute ...
IncrLoad(t) ==
    /\ calls[t].pc = "load"
    /\ calls' = [calls EXCEPT ![t].loaded = currentNode, ![t].pc = "store"]
    /\ UNCHANGED <<cluster, currentNode, ncalls>>
    /\ UNCHANGED exceptConn

\* ... and writes it back; another thread may have run in between.
IncrStore(t) ==
    /\ calls[t].pc = "store"
    /\ currentNode' = calls[t].loaded + 1
    /\ calls' = [calls EXCEPT ![t].pc = "io", ![t].loaded = 0]
    /\ UNCHANGED <<cluster, ncalls>>
    /\ UNCHANGED exceptConn

\* conn.request(...) to the node, its answer, and the rest of the loop body.
NodeAnswers(t) ==
    /\ calls[t].pc = "io"
    /\ LET node == calls[t].next_node + 1
           after == AfterAttempt(cluster[node], calls[t].i, Len(cluster))
       IN calls' = [calls EXCEPT ![t].attempts = Append(@, node),
                                 ![t].next_node = 0,
                                 ![t].pc = after.pc,
                                 ![t].result = after.result,
                                 ![t].i = IF after.pc = "get_node" THEN @ + 1 ELSE @]
    /\ UNCHANGED <<cluster, currentNode, ncalls>>
    /\ UNCHANGED exceptConn

ConnNext ==
    \/ \E t \in Threads : ConnRequest(t)
    \/ \E t \in Threads : GetNode(t)
    \/ \E t \in Threads : IncrLoad(t)
    \/ \E t \in Threads : IncrStore(t)
    \/ \E t \in Threads : NodeAnswers(t)

ConnSpec == ConnInit /\ [][ConnNext]_vars

\* The store clients together: an ESAgent or an ElasticsearchConnection.
StoreInit == AgentInit \/ ConnInit

StoreNext ==
    \/ Len(hostOrder) >= 1 /\ AgentNext
    \/ Len(cluster) >= 1 /\ ConnNext

StoreSpec == StoreInit /\ [][StoreNext]_vars

\* The number of attempts the constructor's arguments ask for: the limit L
\* when 1 <= L < N, and N when the limit is unset, zero, negative or not
\* smaller than N.
AttemptsAsked(limit, n) ==
    IF limit # <<>> /\ limit[1] >= 1 /\ limit[1] < n THEN limit[1] ELSE n

\* C12: when all N nodes fail at transport level, the call fails with the
\* no-nodes-available error (ESError of ESAgent, NoNodesLeft of
\* ElasticsearchConnection) after exactly N attempts, or after exactly L
\* attempts when a limit L with 1 <= L < N is configured; an unset, zero or
\* negative limit means N.
C12_AllNodesFailAttempts ==
    /\ (req.state # "idle" /\ req.down = 1..Len(hostOrder)) =>
          LET asked == AttemptsAsked(limitArg, Len(hostOrder))
          IN /\ req.state \in {"pending", "failed"}
             /\ Len(req.attempts) <= asked
             /\ req.state = "failed" => Len(req.attempts) = asked
    /\ (\A k \in 1..Len(cluster) : cluster[k] = "down") =>
          \A t \in Threads :
             /\ calls[t].result \in {"none", "NoNodesLeft"}
             /\ Len(calls[t].attempts) <= Len(cluster)
             /\ calls[t].pc = "done" =>
                   /\ calls[t].result = "NoNodesLeft"
                   /\ Len(calls[t].attempts) = Len(cluster)

\* C12's case: an agent of three hosts with a limit of two, all hosts down,
\* has failed the request after two attempts.
C12_Witness ==
    /\ Len(hostOrder) = 3
    /\ limitArg = <<2>>
    /\ req.down = 1..3
    /\ req.state = "failed"
    /\ Len(req.attempts) = 2

\* C13: also when several requests run at the same time on the shared
\* connection, no request attempts some node twice and skips another: the
\* attempts of a request are distinct nodes, and a request that fails with
\* NoNodesLeft has attempted every node.
C13_ConcurrentRequestsTryEveryNode ==
    \A t \in Threads :
       /\ \A j, k \in 1..Len(calls[t].attempts) :
             calls[t].attempts[j] = calls[t].attempts[k] => j = k
       /\ calls[t].result = "NoNodesLeft" =>
             Range(calls[t].attempts) = 1..Len(cluster)

\* C14: a response whose decoded body has a non-empty error field raises
\* ElasticsearchException at once: the attempt at such a node is the last
\* attempt of its request, and the request ends with ElasticsearchException
\* (and so not with NoNodesLeft).
C14_ErrorFieldRaisesAtOnce ==
    \A t \in Threads :
       \A k \in 1..Len(calls[t].attempts) :
          cluster[calls[t].attempts[k]] = "error" =>
             /\ k = Len(calls[t].attempts)
             /\ calls[t].pc = "done"
             /\ calls[t].result = "ElasticsearchException"

\* C14's case: in a cluster of two or more nodes the first node a request
\* tried answered with an error field, and the request ended with
\* ElasticsearchException there although other nodes were left to try.
C14_Witness ==
    \E t \in Threads :
       /\ Len(cluster) >= 2
       /\ Len(calls[t].attempts) = 1
       /\ calls[t].i = 1
       /\ cluster[calls[t].attempts[1]] = "error"
       /\ calls[t].result = "ElasticsearchException"

\* C15: a malformed response is treated as a transport-level failure of the
\* node: the request goes on to the next node, and ends with NoNodesLeft only
\* when that node was the last to try.
C15_MalformedResponseRetried ==
    \A t \in Threads :
       LET n == Len(calls[t].attempts)
       IN (n >= 1 /\ calls[t].pc = "done"
             /\ cluster[calls[t].attempts[n]] = "malformed") =>
              /\ calls[t].result = "NoNodesLeft"
              /\ n = Len(cluster)

\* C17: no store request is executed on the reactor thread.
C17_NoStoreRequestOnReactorThread ==
    \A t \in Threads : calls[t].pc \notin {"idle", "done"} => t # "reactor"

\* ============================================ elasticsearch/core/queryset.py
\* One ElasticsearchQueryset and the index it searches. The documents of the
\* index are documents of 1..MaxDocs in the order they were indexed; document
\* d has time d, a channel and a user, and no two documents of the index have
\* the same fields. A query
\* fragment is <<"query_string", string>> (QueryStringQuery) or
\* <<"term", field, value>> (TermQuery). None is <<>> and a value v that may
\* be None is <<v>>.

\* self._size = 100
DefaultSize == 100

\* ElasticsearchClient.search sends no size parameter when size is 0 or None
\* (`if size:`), and the server then returns a page of this many hits.
ServerDefaultSize == 10

Field(d, f) ==
    IF f = "channel" THEN (IF d % 2 = 1 THEN "#a" ELSE "#b")
    ELSE IF f = "user" THEN (IF d = 1 THEN "alice" ELSE "bob")
    ELSE "none"

FieldValues(f) ==
    IF f = "channel" THEN <<"#a", "#b">>
    ELSE IF f = "user" THEN <<"alice", "bob">>
    ELSE <<>>

\* utils.parse_query: one QueryStringQuery if a query string was given, then
\* one TermQuery per keyword argument, in the order of kwargs.items().
ParseQuery(query_string, kwargs) ==
    (IF query_string # <<>> /\ query_string[1] # ""
     THEN << <<"query_string", query_string[1]>> >>
     ELSE <<>>)
    \o [i \in 1..Len(kwargs) |-> <<"term", kwargs[i][1], kwargs[i][2]>>]

\* Whether document d satisfies a fragment. A query string is "*:*", which
\* every document satisfies, or "field:value"; any other string matches no
\* document.
Matches(d, frag) ==
    IF frag[1] = "term" THEN Field(d, frag[2]) = frag[3]
    ELSE \/ frag[2] = "*:*"
         \/ \E f \in {"channel", "user"} : frag[2] = f \o ":" \o Field(d, f)

\* The terms facet of field f over the documents M: <<term, count>> pairs of
\* the terms that occur, most frequent first.
FacetTerms(M, f) ==
    LET vals == SelectSeq(FieldValues(f),
                          LAMBDA v : \E d \in M : Field(d, f) = v)
        n == Len(vals)
        cnt(p) == Cardinality({d \in M : Field(d, f) = vals[p]})
        rank(p) == Cardinality({q \in 1..n :
                       \/ cnt(q) > cnt(p)
                       \/ cnt(q) = cnt(p) /\ q < p}) + 1
    IN [r \in 1..n |->
           LET p == CHOOSE p \in 1..n : rank(p) = r IN <<vals[p], cnt(p)>>]

\* The response to ElasticsearchClient.search(index, doctype, query, order_by,
\* size, offset) over the documents D: those that satisfy every fragment
\* (FilteredQuery ANDs them), sorted by order_by (by time, the only field in
\* use) or left in the order of the index, the page of them that starts
\* at offset (`if offset:`) and holds size hits (`if size:`), and a terms
\* facet per faceted field.
Search(D, query, faceted_on, order_by, size, offset) ==
    LET found == SelectSeq(D, LAMBDA d :
                     \A k \in 1..Len(query) : Matches(d, query[k]))
        M == Range(found)
        m == Len(found)
        asc == [r \in 1..m |->
                   CHOOSE d \in M : Cardinality({e \in M : e < d}) = r - 1]
        sorted == IF order_by = <<>> THEN found
                  ELSE IF order_by[Len(order_by)] = "desc"
                  THEN Reverse(asc) ELSE asc
        from == IF offset # 0 THEN offset ELSE 0
        page == IF size # 0 THEN size ELSE ServerDefaultSize
    IN [total |-> m,
        hits |-> SubSeq(sorted, from + 1, Min(from + page, m)),
        facets |-> [f \in Range(faceted_on) |-> FacetTerms(M, f)]]

\* _parse_raw_response: _parse_results, _parse_facets and
\* self._need_refresh = False
ParseRawResponse(q, response) ==
    [q EXCEPT !.total_results = <<response.total>>,
              !.results = IF response.total # 0 THEN response.hits ELSE <<>>,
              !.facets = <<response.facets>>,
              !.need_refresh = FALSE]

\* _refresh, when the search returns a response
Refresh(q, D) ==
    ParseRawResponse(q, Search(D, q.query, q.faceted_on, q.order_by,
                               q.size, q.offset))

\* A failed search that leaves the queryset marked as evaluated.
RefreshRaisesMarksClean(q) == [q EXCEPT !.need_refresh = FALSE]

\* _refresh, when the search raises (NoNodesLeft, ElasticsearchError):
\* _parse_raw_response is not reached and no field is assigned.
RefreshRaises(q) == q

\* An accessor that searches whether or not the queryset needs it.
WillRefreshAlways(q) == TRUE

\* count, results, facets: `if self._need_refresh: self._refresh()`
WillRefresh(q) == q.need_refresh

\* order_by: the field, with a leading '-' for descending
OrderBy(order_by) ==
    IF order_by[1] = "-" THEN Tail(order_by) \o <<":", "desc">>
    ELSE order_by \o <<":", "asc">>

\* facet: a list is taken as it is, anything else becomes a one-item list
FacetList(facet) == IF facet.list THEN facet.v ELSE <<facet.v>>

\* __getitem__ with a slice: `if index.start:` and `if index.stop:`
SliceOffset(offset, start) ==
    IF start # <<>> /\ start[1] # 0 THEN start[1] ELSE offset

SliceSize(size, offset, stop) ==
    IF stop # <<>> /\ stop[1] # 0 THEN stop[1] - offset ELSE size

\* An assert that looks at the start of the slice only.
SliceAssertStartOnly(a) == a.start = <<>> \/ a.start[1] >= 0

\* __getitem__'s assert, for a slice: start and stop are None or >= 0
SliceAssert(a) ==
    /\ a.start = <<>> \/ a.start[1] >= 0
    /\ a.stop = <<>> \/ a.stop[1] >= 0

\* __getitem__'s assert, for an integer
IndexAssert(index) == index >= 0

\* A slice that leaves self._need_refresh as it was.
SliceResultKeepsFlag(q, a) ==
    LET offset == SliceOffset(q.offset, a.start)
    IN [q EXCEPT !.offset = offset,
                 !.size = SliceSize(q.size, offset, a.stop)]

\* __getitem__ with a slice, after the assert
SliceResult(q, a) ==
    LET offset == SliceOffset(q.offset, a.start)
    IN [q EXCEPT !.need_refresh = TRUE,
                 !.offset = offset,
                 !.size = SliceSize(q.size, offset, a.stop)]

\* ------------------------------------------------------------------ inputs
\* ESLogLine.objects.all() and ESLogLine.objects.filter(channel='#a')
InitialQueries ==
    {ParseQuery(<<"*:*">>, <<>>), ParseQuery(<<>>, << <<"channel", "#a">> >>)}

FilterArgs ==
    {[query_string |-> <<>>, kwargs |-> << <<"channel", "#a">> >>],
     [query_string |-> <<"*:*">>, kwargs |-> <<>>]}

OrderByArgs == {<<"time">>, <<"-", "time">>}

FacetArgs ==
    {[list |-> FALSE, v |-> "channel"], [list |-> TRUE, v |-> <<"user">>]}

LimitArgs == {1, 2}

SliceArgs ==
    {[start |-> <<>>, stop |-> <<1>>], [start |-> <<1>>, stop |-> <<>>],
     [start |-> <<0>>, stop |-> <<2>>], [start |-> <<1>>, stop |-> <<2>>],
     [start |-> <<2>>, stop |-> <<>>],
     [start |-> <<-1>>, stop |-> <<>>], [start |-> <<0>>, stop |-> <<-1>>]}

IndexArgs == {-1, 0, 1}

\* Indexes that are neither a slice nor an integer, such as qs['x'].
OtherIndexArgs == {"x"}

\* The indexes of up to MaxDocs documents
Indexes ==
    {D \in UNION {[1..n -> 1..MaxDocs] : n \in 0..MaxDocs} :
        \A i, j \in 1..Len(D) : i # j => D[i] # D[j]}

\* ElasticsearchQueryset.__init__ over an index of up to MaxDocs documents
QsInit ==
    /\ \E D \in Indexes : docs = <<D>>
    /\ \E query \in InitialQueries :
          qs = [query |-> query, need_refresh |-> TRUE, results |-> <<>>,
                facets |-> <<>>, faceted_on |-> <<>>, total_results |-> <<>>,
                order_by |-> <<>>, size |-> DefaultSize, offset |-> 0]
    /\ qlog = NoOp
    /\ nops = 0
    /\ BufIdle
    /\ BotIdle
    /\ AgentIdle
    /\ ConnIdle
    /\ UtilsIdle
    /\ FileIdle
    /\ ViewIdle
    /\ SignIdle
    /\ GetIdle

\* A method that changes the query, evaluates nothing and returns self.
Mutation(op, arg, q) ==
    /\ nops < MaxOps
    /\ qs' = q
    /\ qlog' = [op |-> op, before |-> qs.need_refresh, searches |-> 0,
                ok |-> TRUE, evals |-> 0, arg |-> arg,
                ret |-> Ret("self", 0), pre |-> qs,
                seen |-> IF q.need_refresh THEN <<>> ELSE qlog.seen]
    /\ nops' = nops + 1
    /\ UNCHANGED docs
    /\ UNCHANGED exceptQs

\* An index that always returns the first document.
ItemAtFirst(results, index) ==
    IF 0 < Len(results) THEN Ret("doc", results[1]) ELSE Ret("IndexError", 0)

\* self.results[index] for index >= 0
ItemAt(results, index) ==
    IF index < Len(results) THEN Ret("doc", results[index + 1])
    ELSE Ret("IndexError", 0)

\* count: return int(len(self._results))
CountOf(q) == Ret("int", Len(q.results))

\* What the method returns once the queryset is q.
Returned(op, arg, q) ==
    CASE op = "index" -> ItemAt(q.results, arg)
      [] op = "count" -> CountOf(q)
      [] op = "results" -> Ret("results", 0)
      [] op = "facets" -> Ret("facets", 0)

\* A method that evaluates q if its guard says so; the search may raise
\* (`ok` false), and then _refresh changes nothing and the method raises. A
\* search of an index that does not exist raises (the server answers with an
\* error, and _validate_response raises ElasticsearchException).
Evaluation(op, arg, q, will, evals) ==
    /\ nops < MaxOps
    /\ \E ok \in BOOLEAN :
          /\ will \/ ok
          /\ (will /\ docs = <<>>) => ~ok
          /\ qs' = IF will /\ ok THEN Refresh(q, docs[1])
                   ELSE IF will THEN RefreshRaises(q) ELSE q
          /\ qlog' = [op |-> op, before |-> qs.need_refresh,
                      searches |-> IF will THEN 1 ELSE 0,
                      ok |-> ok,
                      evals |-> evals + (IF will /\ ok THEN 1 ELSE 0),
                      arg |-> arg,
                      ret |-> IF ok THEN Returned(op, arg, qs')
                              ELSE Ret("raised", 0),
                      pre |-> qs,
                      seen |-> IF will /\ ok THEN docs
                               ELSE IF qs'.need_refresh THEN <<>>
                               ELSE qlog.seen]
    /\ nops' = nops + 1
    /\ UNCHANGED docs
    /\ UNCHANGED exceptQs

\* A call that raises before it touches the queryset.
Rejected(op, arg, error) ==
    /\ nops < MaxOps
    /\ qs' = qs
    /\ qlog' = [op |-> op, before |-> qs.need_refresh, searches |-> 0,
                ok |-> TRUE, evals |-> qlog.evals, arg |-> arg,
                ret |-> Ret(error, 0), pre |-> qs, seen |-> qlog.seen]
    /\ nops' = nops + 1
    /\ UNCHANGED docs
    /\ UNCHANGED exceptQs

Filter ==
    \E a \in FilterArgs :
       Mutation("filter", a,
                [qs EXCEPT !.query = @ \o ParseQuery(a.query_string, a.kwargs),
                           !.need_refresh = TRUE])

OrderByCall ==
    \E a \in OrderByArgs :
       Mutation("order_by", a,
                [qs EXCEPT !.order_by = OrderBy(a), !.need_refresh = TRUE])

\* facet appends to self._faceted_on and leaves self._need_refresh alone
Facet ==
    \E a \in FacetArgs :
       Mutation("facet", a, [qs EXCEPT !.faceted_on = @ \o FacetList(a)])

\* limit sets self._size and leaves self._need_refresh alone
Limit ==
    \E a \in LimitArgs : Mutation("limit", a, [qs EXCEPT !.size = a])

GetItemSlice ==
    \E a \in SliceArgs :
       IF SliceAssert(a)
       THEN Mutation("slice", a, SliceResult(qs, a))
       ELSE Rejected("slice", a, "AssertionError")

\* __getitem__ with an integer: self._need_refresh = True, then
\* self.results[index]
GetItemIndex ==
    \E a \in IndexArgs :
       IF IndexAssert(a)
       THEN Evaluation("index", a, [qs EXCEPT !.need_refresh = TRUE],
                       WillRefresh([qs EXCEPT !.need_refresh = TRUE]), 0)
       ELSE Rejected("index", a, "AssertionError")

\* __getitem__ with anything else: raise TypeError
GetItemOther ==
    \E a \in OtherIndexArgs : Rejected("getitem", a, "TypeError")

Count == Evaluation("count", <<>>, qs, WillRefresh(qs), qlog.evals)

Results == Evaluation("results", <<>>, qs, WillRefresh(qs), qlog.evals)

Facets == Evaluation("facets", <<>>, qs, WillRefresh(qs), qlog.evals)

\* ESLogLine.objects.create(**kwargs), which SearchLogger.log calls for every
\* message a flush passes on: save() indexes the document while the queryset
\* lives. The queryset is not told: its cache and its flag stay as they are.
\* d is the document the keyword arguments describe; the server creates the
\* index when it does not exist.
Create ==
    /\ nops < MaxOps
    /\ \E d \in 1..MaxDocs :
          /\ IF docs = <<>> THEN TRUE ELSE d \notin Range(docs[1])
          /\ docs' = IF docs = <<>> THEN << <<d>> >>
                      ELSE <<Append(docs[1], d)>>
    /\ nops' = nops + 1
    /\ UNCHANGED <<qs, qlog>>
    /\ UNCHANGED exceptQs

\* ElasticsearchClient.delete_by_id(index, doctype, docid): document d leaves
\* the index.
DeleteById ==
    /\ nops < MaxOps
    /\ docs # <<>>
    /\ \E d \in Range(docs[1]) :
          docs' = <<SelectSeq(docs[1], LAMBDA e : e # d)>>
    /\ nops' = nops + 1
    /\ UNCHANGED <<qs, qlog>>
    /\ UNCHANGED exceptQs

\* ElasticsearchUtils.delete_by_query(query): the documents that satisfy
\* QueryStringQuery(query) leave the index.
DeleteByQuery(query) ==
    /\ nops < MaxOps
    /\ docs # <<>>
    /\ docs' = <<SelectSeq(docs[1], LAMBDA d :
                               ~Matches(d, <<"query_string", query>>))>>
    /\ nops' = nops + 1
    /\ UNCHANGED <<qs, qlog>>
    /\ UNCHANGED exceptQs

\* ElasticsearchUtils.delete_all_documents()
DeleteAllDocuments == DeleteByQuery("*:*")

\* ElasticsearchUtils.delete_index(): the index and its documents are gone,
\* and searches raise until the index exists again.
DeleteIndex ==
    /\ nops < MaxOps
    /\ docs # <<>>
    /\ docs' = <<>>
    /\ nops' = nops + 1
    /\ UNCHANGED <<qs, qlog>>
    /\ UNCHANGED exceptQs

\* ElasticsearchUtils.create_index(): an empty index
CreateIndex ==
    /\ nops < MaxOps
    /\ docs = <<>>
    /\ docs' = << <<>> >>
    /\ nops' = nops + 1
    /\ UNCHANGED <<qs, qlog>>
    /\ UNCHANGED exceptQs

QsNext ==
    \/ Filter
    \/ OrderByCall
    \/ Facet
    \/ Limit
    \/ GetItemSlice
    \/ GetItemIndex
    \/ GetItemOther
    \/ Count
    \/ Results
    \/ Facets
    \/ Create
    \/ DeleteById
    \/ \E query \in {"user:alice", "user:bob"} : DeleteByQuery(query)
    \/ DeleteAllDocuments
    \/ DeleteIndex
    \/ CreateIndex

QsSpec == QsInit /\ [][QsNext]_vars

\* C18: the queryset is DIRTY after construction and after every filter,
\* order_by, facet or slice call, and becomes CLEAN only when count(),
\* materialization or facets access performs a store round trip.
C18_DirtyAfterMutation ==
    /\ (/\ qlog.op \in {"none", "filter", "order_by", "facet", "slice"}
        /\ qlog.ret.kind \in {"none", "self"}) =>
          qs.need_refresh
    /\ (qlog.before /\ ~qs.need_refresh) =>
          /\ qlog.op \in {"count", "results", "facets", "index"}
          /\ qlog.searches = 1
          /\ qlog.ok

\* C19: whenever the queryset is CLEAN, its cached documents, facets and
\* total are those of a search made with the current query fragments,
\* ordering, facet fields, offset and size, over the documents the index held
\* when the queryset last searched it (qlog.seen).
C19_CleanCacheIsCurrent ==
    ~qs.need_refresh =>
        /\ qlog.seen # <<>>
        /\ qs = Refresh(qs, qlog.seen[1])

\* C20: count(), materialization and facets access perform no search while
\* the queryset is CLEAN and exactly one search when it is DIRTY; between two
\* calls that change the query, at most one search returns a response, however
\* many of these accessors are called.
C20_CleanAccessDoesNotSearch ==
    /\ qlog.op \in {"count", "results", "facets"} =>
          qlog.searches = (IF qlog.before THEN 1 ELSE 0)
    /\ qlog.evals <= 1

\* C20's case: an accessor was called on a CLEAN queryset that a former call
\* had evaluated, and it made no search.
C20_Witness ==
    /\ qlog.op \in {"count", "results", "facets"}
    /\ ~qlog.before
    /\ qlog.searches = 0
    /\ qlog.evals = 1
    /\ qs.total_results # <<>>

\* C21: a slice returns the same queryset, makes no search and leaves the
\* queryset DIRTY (with its cache as it was), also when the queryset was CLEAN
\* and the bounds are those already in effect.
C21_SliceIsLazyAndDirties ==
    (qlog.op = "slice" /\ SliceAssert(qlog.arg)) =>
        /\ qlog.ret = Ret("self", 0)
        /\ qlog.searches = 0
        /\ qs.need_refresh
        /\ qs.results = qlog.pre.results
        /\ qs.facets = qlog.pre.facets
        /\ qs.total_results = qlog.pre.total_results

\* C21's case: qs[a:b] on a CLEAN queryset whose offset and size were already
\* a and b - a.
C21_Witness ==
    /\ qlog.op = "slice"
    /\ qlog.arg.start # <<>>
    /\ qlog.arg.stop # <<>>
    /\ ~qlog.before
    /\ qlog.pre.offset = qlog.arg.start[1]
    /\ qlog.pre.size = qlog.arg.stop[1] - qlog.arg.start[1]
    /\ qs.offset = qlog.pre.offset
    /\ qs.size = qlog.pre.size
    /\ qs.need_refresh

\* C22: after qs[a:b] with 0 <= a <= b the queryset has offset a and size
\* b - a, whatever offset and size were before.
C22_SliceSetsOffsetAndSize ==
    (/\ qlog.op = "slice"
     /\ qlog.arg.start # <<>>
     /\ qlog.arg.stop # <<>>
     /\ 0 <= qlog.arg.start[1]
     /\ qlog.arg.start[1] <= qlog.arg.stop[1]) =>
        /\ qs.offset = qlog.arg.start[1]
        /\ qs.size = qlog.arg.stop[1] - qlog.arg.start[1]

\* C23: a negative integer index, a slice with a negative start or stop, or
\* an index that is neither an integer nor a slice raises an error, makes no
\* search and leaves the queryset (flag, offset, size, cache) as it was.
C23_InvalidIndexRejected ==
    (\/ qlog.op = "index" /\ qlog.arg < 0
     \/ /\ qlog.op = "slice"
        /\ \/ qlog.arg.start # <<>> /\ qlog.arg.start[1] < 0
           \/ qlog.arg.stop # <<>> /\ qlog.arg.stop[1] < 0
     \/ qlog.op = "getitem") =>
        /\ qlog.ret.kind \in {"AssertionError", "TypeError"}
        /\ qlog.searches = 0
        /\ qs = qlog.pre

\* C23's case: a slice with a negative stop was refused on a CLEAN queryset
\* that holds cached documents.
C23_Witness ==
    /\ qlog.op = "slice"
    /\ qlog.arg.stop = <<-1>>
    /\ qlog.ret.kind = "AssertionError"
    /\ ~qs.need_refresh
    /\ Len(qs.results) >= 1

\* C24: qs[i] with i >= 0 evaluates the query and returns the document at
\* position i of the documents the store returns for it, and raises an
\* out-of-range error when fewer than i + 1 documents are returned. The
\* documents are those of the index at the time of the call (qlog.seen).
C24_IndexReturnsDocumentAtPosition ==
    (qlog.op = "index" /\ qlog.arg >= 0 /\ qlog.ok) =>
        LET hits == Search(qlog.seen[1], qs.query, qs.faceted_on, qs.order_by,
                           qs.size, qs.offset).hits
        IN /\ qlog.searches = 1
           /\ qlog.ret = IF qlog.arg + 1 <= Len(hits)
                         THEN Ret("doc", hits[qlog.arg + 1])
                         ELSE Ret("IndexError", 0)

\* C24's case: qs[1] returned the second of two documents.
C24_Witness ==
    /\ qlog.op = "index"
    /\ qlog.arg = 1
    /\ qlog.ret.kind = "doc"
    /\ Len(qs.results) >= 2
    /\ qlog.ret.v = qs.results[2]

\* C25: count() returns the total number of hits the store reports for the
\* query, also when the total is larger than the fetched page.
C25_CountIsTotal ==
    (qlog.op = "count" /\ qlog.ok) => qlog.ret = Ret("int", qs.total_results[1])

\* =============================================== elasticsearch/core/utils.py
\* parse_query and build_query as functions. A Python value is a record: a
\* str, a unicode or an int. A JSON text is described by its structure, with
\* JSON strings and numbers at the leaves.

PyStr(s) == [t |-> "str", s |-> s, n |-> 0]

PyUnicode(s) == [t |-> "unicode", s |-> s, n |-> 0]

PyInt(n) == [t |-> "int", s |-> "", n |-> n]

\* a == b in Python 2: a str and a unicode of the same ASCII text are equal
PyEq(a, b) ==
    IF a.t = "int" \/ b.t = "int" THEN a.t = b.t /\ a.n = b.n ELSE a.s = b.s

\* json.dumps of a str, unicode or int
JsonDumps(v) ==
    IF v.t = "int" THEN [t |-> "number", s |-> "", n |-> v.n]
    ELSE [t |-> "string", s |-> v.s, n |-> 0]

\* json.loads of a JSON string or number: strings come back as unicode
JsonLoads(j) == IF j.t = "number" THEN PyInt(j.n) ELSE PyUnicode(j.s)

\* The keyword names in use; dictOrder[i] is the place of Keys[i] in the
\* iteration order of a dict.
Keys == <<"user", "channel", "message">>

KeyPos(k) == CHOOSE i \in 1..Len(Keys) : Keys[i] = k

Values == {PyStr("bob"), PyInt(5)}

\* The keyword arguments as written at the call, in that order: up to
\* MaxPairs pairs with distinct names.
SuppliedPairs ==
    UNION {{p \in [1..n -> Range(Keys) \X Values] :
               \A i, j \in 1..n : p[i][1] = p[j][1] => i = j} :
           n \in 0..Min(MaxPairs, Len(Keys))}

\* kwargs.items(): the pairs in the dict's order, whatever order they were
\* written in.
Items(pairs, order) ==
    LET n == Len(pairs)
        pos(p) == order[KeyPos(pairs[p][1])]
        rank(p) == Cardinality({q \in 1..n : pos(q) < pos(p)}) + 1
    IN [r \in 1..n |-> pairs[CHOOSE p \in 1..n : rank(p) = r]]

\* to_dict of a TermQuery ({'term': {field: value}}) or a QueryStringQuery
\* ({'query_string': {'query': str(query_string)}})
ToDict(frag) ==
    IF frag[1] = "term"
    THEN [kind |-> "term", field |-> frag[2], value |-> frag[3]]
    ELSE [kind |-> "query_string", field |-> "query", value |-> PyStr(frag[2])]

\* A FilteredQuery that keeps the first query only.
FilteredQueryFirstOnly(and_queries) ==
    [i \in 1..1 |->
        [wrapped |-> and_queries[i][1] = "query_string",
         q |-> ToDict(and_queries[i])]]

\* FilteredQuery._build_query: the list under constant_score/filter/and, a
\* QueryStringQuery wrapped in {'query': ...}
FilteredQuery(and_queries) ==
    [i \in 1..Len(and_queries) |->
        [wrapped |-> and_queries[i][1] = "query_string",
         q |-> ToDict(and_queries[i])]]

\* json.dumps of one entry of the list
DumpsEntry(e) == [e EXCEPT !.q.value = JsonDumps(@)]

\* The request body as JSON text: an object {"query": ..., "facets": ...}
\* (with the queries under constant_score/filter/and or bare), "[]", or the
\* text of a raw body.
Body(top, wrap, queries, facets, raw) ==
    [top |-> top, wrap |-> wrap, queries |-> queries, facets |-> facets,
     raw |-> raw]

ReturnsNone == [kind |-> "None", body |-> <<>>]

ReturnsJson(body) == [kind |-> "json", body |-> body]

\* build_query(query, facets): query is a RawQuery ("raw"), a list of
\* queries ("list") or one query that is not raw ("one"). For a RawQuery the
\* body of `if not isinstance(query, RawQuery):` is skipped and the function
\* ends without a return statement.
BuildQuery(query, facets) ==
    IF query.kind = "raw" THEN ReturnsNone
    ELSE IF query.kind = "list" /\ query.items # <<>>
    THEN LET filtered == FilteredQuery(query.items)
         IN ReturnsJson(Body("object", "constant_score",
                             [i \in 1..Len(filtered) |-> DumpsEntry(filtered[i])],
                             Range(facets), ""))
    ELSE IF query.kind = "list"
    THEN ReturnsJson(Body("array", "none", <<>>, {}, ""))
    ELSE ReturnsJson(Body("object", "none",
                          <<DumpsEntry([wrapped |-> FALSE,
                                        q |-> ToDict(query.items[1])])>>,
                          Range(facets), ""))

\* The response of a store that echoes the term constraints of the request
\* body as the _source of one hit, as the client decodes it (json.loads).
EchoResponse(body) ==
    LET terms == {i \in 1..Len(body.queries) : body.queries[i].q.kind = "term"}
        fields == {body.queries[i].q.field : i \in terms}
    IN [total |-> 1,
        source |-> [f \in fields |->
                       JsonLoads(body.queries[
                           CHOOSE i \in terms : body.queries[i].q.field = f
                       ].q.value)]]

\* ElasticsearchModel.__init__(**kwargs): self._document[k] = v for each item
ModelInit(kwargs) == [k \in DOMAIN kwargs |-> kwargs[k]]

\* _parse_results on a response with one hit: self._model(**hit['_source'])
ParseResults(response) ==
    IF response.total # 0 THEN <<ModelInit(response.source)>> ELSE <<>>

\* ------------------------------------------------------------------ inputs
QueryStrings == {<<>>, <<"">>, <<"foo">>}

RawBodies == {"match_all", "range"}

BuildQueryArgs ==
    {[kind |-> "raw", items |-> <<>>, raw |-> b] : b \in RawBodies}
    \cup {[kind |-> "list", items |-> ParseQuery(q, p), raw |-> ""] :
             q \in {<<>>, <<"foo">>},
             p \in {<<>>, << <<"user", PyStr("bob")>> >>}}
    \cup {[kind |-> "one", items |-> << <<"term", "user", PyStr("bob")>> >>,
           raw |-> ""]}

FacetLists == {<<>>, <<"channel">>}

UtilsInit ==
    /\ dictOrder \in DictOrders(Len(Keys))
    /\ ucall = NoUtilsCall
    /\ uout = <<>>
    /\ BufIdle
    /\ BotIdle
    /\ AgentIdle
    /\ ConnIdle
    /\ QsIdle
    /\ FileIdle
    /\ ViewIdle
    /\ SignIdle
    /\ GetIdle

\* parse_query(query_string, **pairs)
ParseQueryCall ==
    /\ dictOrder # <<>>
    /\ \E query_string \in QueryStrings, pairs \in SuppliedPairs :
          /\ ucall' = [fn |-> "parse_query", query_string |-> query_string,
                       pairs |-> pairs]
          /\ uout' = ParseQuery(query_string, Items(pairs, dictOrder))
    /\ UNCHANGED dictOrder
    /\ UNCHANGED exceptUtils

\* build_query(query, facets)
BuildQueryCall ==
    /\ dictOrder # <<>>
    /\ \E query \in BuildQueryArgs, facets \in FacetLists :
          /\ ucall' = [fn |-> "build_query", query |-> query,
                       facets |-> facets]
          /\ uout' = BuildQuery(query, facets)
    /\ UNCHANGED dictOrder
    /\ UNCHANGED exceptUtils

\* The round trip of a set of term constraints: parse_query(**pairs),
\* build_query, the store's echo, _parse_results.
RoundTripCall ==
    /\ dictOrder # <<>>
    /\ \E pairs \in SuppliedPairs :
          LET query == [kind |-> "list", raw |-> "",
                        items |-> ParseQuery(<<>>, Items(pairs, dictOrder))]
          IN /\ ucall' = [fn |-> "round_trip", pairs |-> pairs]
             /\ uout' = ParseResults(
                            EchoResponse(BuildQuery(query, <<>>).body))
    /\ UNCHANGED dictOrder
    /\ UNCHANGED exceptUtils

UtilsNext ==
    \/ ParseQueryCall
    \/ BuildQueryCall
    \/ RoundTripCall

UtilsSpec == UtilsInit /\ [][UtilsNext]_vars

\* C26: parse_query(freeText, **pairs) yields one QueryStringQuery first when
\* a non-empty string is given, then one TermQuery per pair, in the order the
\* pairs were supplied.
C26_ParseQueryKeepsSuppliedOrder ==
    ucall.fn = "parse_query" =>
        uout = (IF ucall.query_string \notin {<<>>, <<"">>}
                THEN << <<"query_string", ucall.query_string[1]>> >>
                ELSE <<>>)
               \o [i \in 1..Len(ucall.pairs) |->
                      <<"term", ucall.pairs[i][1], ucall.pairs[i][2]>>]

\* C27: when the top-level query passed to build_query is a RawQuery, the
\* body returned is that raw body serialized verbatim.
C27_RawQuerySerializedVerbatim ==
    (ucall.fn = "build_query" /\ ucall.query.kind = "raw") =>
        /\ uout.kind = "json"
        /\ uout.body = Body("raw", "none", <<>>, {}, ucall.query.raw)

\* C28: for every set of field/value term constraints, building the request
\* body and parsing a response whose hit echoes the constraints yields one
\* document whose fields are exactly the original pairs.
C28_TermRoundTrip ==
    ucall.fn = "round_trip" =>
        /\ Len(uout) = 1
        /\ DOMAIN uout[1] = {ucall.pairs[i][1] : i \in 1..Len(ucall.pairs)}
        /\ \A i \in 1..Len(ucall.pairs) :
              PyEq(uout[1][ucall.pairs[i][1]], ucall.pairs[i][2])

\* C28's case: two constraints, a string and a number, written in the
\* opposite of the dict's order, came back as the fields of the document.
C28_Witness ==
    /\ ucall.fn = "round_trip"
    /\ Len(ucall.pairs) = 2
    /\ ucall.pairs[1][2].t # ucall.pairs[2][2].t
    /\ dictOrder[KeyPos(ucall.pairs[1][1])] > dictOrder[KeyPos(ucall.pairs[2][1])]
    /\ Len(uout) = 1
    /\ uout[1][ucall.pairs[1][1]].t \in {"unicode", "int"}

\* ==================================================== loggers.py (files)
\* MultiChannelFileLogger: one DailyFileLogger per configured channel and one
\* LogFile, system.logs, for everything else. A logger is modelled by the
\* strings written to it, in order.

\* time.asctime(time.localtime(message_time)): the time string of the second
\* message_time.
Asctime(message_time) == "asctime(" \o ToString(message_time) \o ")"

\* message_to_string
MessageToString(message_time, message, user, channel) ==
    "[" \o channel \o "] " \o Asctime(message_time) \o " :  <" \o user
        \o "> " \o message

\* DailyFileLogger.log: what it writes to its file.
DailyFileLine(message_time, message, user, channel) ==
    MessageToString(message_time, message, user, channel) \o "\n"

UnknownChannelPrefix == "-- Received message from unknown channel:\n\t"

SystemLineAlwaysPrefixed(message_time, message, user, channel) ==
    UnknownChannelPrefix
        \o (MessageToString(message_time, message, user, channel) \o "\n")

\* MultiChannelFileLogger.log, else branch: formatted_message.
SystemLine(message_time, message, user, channel) ==
    LET formatted_message ==
            MessageToString(message_time, message, user, channel) \o "\n"
    IN  IF channel # "SYSTEM_LOG"
        THEN UnknownChannelPrefix \o formatted_message
        ELSE formatted_message

\* MultiChannelFileLogger.__init__: self._channel_loggers, a dict with one
\* DailyFileLogger per name in the list (a name given twice has one logger).
ChannelLoggers(channels) ==
    [c \in {channels[i] : i \in DOMAIN channels} |-> <<>>]

SystemWritesAlways(message_time, message, user, channel, channel_loggers, system_logger) ==
    Append(system_logger, SystemLine(message_time, message, user, channel))

\* MultiChannelFileLogger.log: self._system_logger after the call.
SystemWritesAfter(message_time, message, user, channel, channel_loggers, system_logger) ==
    IF channel \in DOMAIN channel_loggers
    THEN system_logger
    ELSE Append(system_logger,
                SystemLine(message_time, message, user, channel))

\* MultiChannelFileLogger.log: self._channel_loggers after the call.
ChannelWritesAfter(message_time, message, user, channel, channel_loggers) ==
    IF channel \in DOMAIN channel_loggers
    THEN [channel_loggers EXCEPT ![channel] =
              Append(@, DailyFileLine(message_time, message, user, channel))]
    ELSE channel_loggers

\* The channel names a logger is configured with, and those of the events.
ConfiguredNames == {"channel1", "channel2", "SYSTEM_LOG"}

LogChannels == {"channel1", "channel2", "channel3", "SYSTEM_LOG"}

LogUsers == {"user"}

LogMessages == {"message"}

ChannelLists ==
    UNION {[1..n -> ConfiguredNames] : n \in 0..MaxChannels}

\* MultiChannelFileLogger(directory, channels)
FileInit ==
    /\ \E channels \in ChannelLists :
           channelWrites = ChannelLoggers(channels)
    /\ systemWrites = <<>>
    /\ flog = NoLog
    /\ nfile = 0
    /\ BufIdle
    /\ BotIdle
    /\ AgentIdle
    /\ ConnIdle
    /\ QsIdle
    /\ UtilsIdle
    /\ ViewIdle
    /\ SignIdle
    /\ GetIdle

\* MultiChannelFileLogger.log(message_time, message, user, channel)
FileLog ==
    /\ nfile < MaxWrites
    /\ \E message_time \in 0..MaxClock, message \in LogMessages,
          user \in LogUsers, channel \in LogChannels :
           /\ channelWrites' = ChannelWritesAfter(message_time, message, user,
                                                  channel, channelWrites)
           /\ systemWrites' = SystemWritesAfter(message_time, message, user,
                                                channel, channelWrites,
                                                systemWrites)
           /\ flog' = [fn |-> "log", message_time |-> message_time,
                       message |-> message, user |-> user,
                       channel |-> channel,
                       pre |-> [system |-> systemWrites,
                                channels |-> channelWrites]]
    /\ nfile' = nfile + 1
    /\ UNCHANGED exceptFile

FileNext == FileLog

FileSpec == FileInit /\ [][FileNext]_vars

\* The line message_to_string gives for the last log() call, with its newline.
LoggedLine ==
    MessageToString(flog.message_time, flog.message, flog.user, flog.channel)
        \o "\n"

\* C29: an event whose channel is not one of the configured channels is
\* written to the system file and to no channel's file, and the line written
\* carries the unknown-channel prefix exactly when the channel is not
\* SYSTEM_LOG.
C29_UnknownChannelToSystemFile ==
    (flog.fn = "log" /\ flog.channel \notin DOMAIN channelWrites) =>
        /\ Len(systemWrites) = Len(flog.pre.system) + 1
        /\ SubSeq(systemWrites, 1, Len(flog.pre.system)) = flog.pre.system
        /\ channelWrites = flog.pre.channels
        /\ LET written == systemWrites[Len(systemWrites)]
           IN  /\ written \in {LoggedLine, UnknownChannelPrefix \o LoggedLine}
               /\ (written = UnknownChannelPrefix \o LoggedLine)
                      <=> (flog.channel # "SYSTEM_LOG")

\* A logger with a configured channel has logged an event of an unknown
\* channel and then a SYSTEM_LOG event: both are in the system file, the first
\* prefixed and the second not.
C29_Witness ==
    /\ flog.fn = "log"
    /\ flog.channel = "SYSTEM_LOG"
    /\ DOMAIN channelWrites = {"channel1"}
    /\ Len(systemWrites) = 2
    /\ systemWrites[1] =
           UnknownChannelPrefix
               \o DailyFileLine(0, "message", "user", "channel3")
    /\ systemWrites[2] = DailyFileLine(1, "message", "user", "SYSTEM_LOG")

\* C30: an event whose channel is one of the configured channels is written
\* to that channel's logger exactly once, and neither to the system file nor
\* to another channel's logger: it has exactly one destination.
C30_KnownChannelToOwnLoggerOnly ==
    (flog.fn = "log" /\ flog.channel \in DOMAIN channelWrites) =>
        /\ systemWrites = flog.pre.system
        /\ DOMAIN channelWrites = DOMAIN flog.pre.channels
        /\ \A c \in DOMAIN channelWrites :
               channelWrites[c] =
                   IF c = flog.channel
                   THEN Append(flog.pre.channels[c], LoggedLine)
                   ELSE flog.pre.channels[c]

\* A logger with two configured channels has logged an event of one of them,
\* after an event that went to the system file.
C30_Witness ==
    /\ flog.fn = "log"
    /\ flog.channel = "channel1"
    /\ DOMAIN channelWrites = {"channel1", "channel2"}
    /\ Len(channelWrites["channel1"]) = 1
    /\ Len(systemWrites) = 1

\* ============================================================ web/view.py
\* SearchResource.element_from_request. request.args maps an argument name to
\* the list of its values; an argument is absent (<<>>) or has a list
\* (<<list>>).

ArgNames == {"search", "channel", "user"}

\* request.args.get(name, [])
ArgsGet(args, name) == IF args[name] = <<>> THEN <<>> ELSE args[name][1]

\* queryString: None, or the first search value
QueryString(search_args) ==
    IF Len(search_args) > 0 THEN <<search_args[1]>> ELSE <<>>

\* kwargs: the first channel value and the first user value, when there are any
Kwargs(channel_args, user_args) ==
    (IF Len(channel_args) > 0 THEN {<<"channel", channel_args[1]>>} ELSE {})
    \cup (IF Len(user_args) > 0 THEN {<<"user", user_args[1]>>} ELSE {})

\* The truth value of queryString: None and '' are false.
Truthy(queryString) == queryString # <<>> /\ queryString[1] # ""

AllCall == [fn |-> "all", query_string |-> <<>>, kwargs |-> {}]

FilterCall(queryString, kwargs) ==
    [fn |-> "filter", query_string |-> queryString, kwargs |-> kwargs]

ObjectsCallIfGiven(args) ==
    LET queryString == QueryString(ArgsGet(args, "search"))
        kwargs == Kwargs(ArgsGet(args, "channel"), ArgsGet(args, "user"))
    IN  IF queryString # <<>> \/ Cardinality(kwargs) > 0
        THEN FilterCall(queryString, kwargs)
        ELSE AllCall

\* `if queryString or len(kwargs) > 0:` filter, else all
ObjectsCall(args) ==
    LET queryString == QueryString(ArgsGet(args, "search"))
        kwargs == Kwargs(ArgsGet(args, "channel"), ArgsGet(args, "user"))
    IN  IF Truthy(queryString) \/ Cardinality(kwargs) > 0
        THEN FilterCall(queryString, kwargs)
        ELSE AllCall

\* The orders in which a dict with the items S can yield them.
ItemOrders(S) ==
    {s \in [1..Cardinality(S) -> S] : {s[i] : i \in 1..Cardinality(S)} = S}

\* ElasticsearchQueryset.__init__
NewQueryset(query) ==
    [query |-> query, need_refresh |-> TRUE, results |-> <<>>,
     facets |-> <<>>, faceted_on |-> <<>>, total_results |-> <<>>,
     order_by |-> <<>>, size |-> DefaultSize, offset |-> 0]

\* ElasticsearchManager.all and ElasticsearchManager.filter: the queryset the
\* call returns, kwargs being yielded in the order items.
ManagerQueryset(call, items) ==
    IF call.fn = "all" THEN NewQueryset(ParseQuery(<<"*:*">>, <<>>))
    ELSE NewQueryset(ParseQuery(call.query_string, items))

\* queryset.facet('channel').facet('user').order_by('time')
ElementQueryset(q) ==
    [q EXCEPT !.faceted_on =
                  (@ \o FacetList([list |-> FALSE, v |-> "channel"]))
                      \o FacetList([list |-> FALSE, v |-> "user"]),
              !.order_by = OrderBy(<<"time">>),
              !.need_refresh = TRUE]

SearchArgLists == {<<>>, << <<>> >>, << <<"">> >>, << <<"foo">> >>,
                   << <<"foo", "bar">> >>}

ChannelArgLists == {<<>>, << <<>> >>, << <<"#a">> >>, << <<"#a", "#b">> >>}

UserArgLists == {<<>>, << <<>> >>, << <<"bob">> >>, << <<"bob", "al">> >>}

RequestArgs ==
    {[n \in ArgNames |->
         CASE n = "search" -> s [] n = "channel" -> c [] n = "user" -> u] :
     s \in SearchArgLists, c \in ChannelArgLists, u \in UserArgLists}

\* SearchResource()
ViewInit ==
    /\ vargs = <<>>
    /\ vcalls = <<>>
    /\ velement = <<>>
    /\ nview = 0
    /\ BufIdle
    /\ BotIdle
    /\ AgentIdle
    /\ ConnIdle
    /\ QsIdle
    /\ UtilsIdle
    /\ FileIdle
    /\ SignIdle
    /\ GetIdle

\* SearchResource.element_from_request(request)
ElementFromRequest ==
    /\ nview < MaxViews
    /\ \E args \in RequestArgs :
          LET call == ObjectsCall(args)
          IN  /\ vargs' = <<args>>
              /\ vcalls' = <<call>>
              /\ \E items \in ItemOrders(call.kwargs) :
                    velement' =
                        <<ElementQueryset(ManagerQueryset(call, items))>>
    /\ nview' = nview + 1
    /\ UNCHANGED exceptView

ViewNext == ElementFromRequest

ViewSpec == ViewInit /\ [][ViewNext]_vars

\* The first values of the arguments that have one.
FirstValues(args) ==
    [query_string |-> QueryString(ArgsGet(args, "search")),
     kwargs |-> Kwargs(ArgsGet(args, "channel"), ArgsGet(args, "user"))]

\* C31 as stated: a request with no search, channel or user value (absent or
\* empty list) calls objects.all() once and never filter; any other request
\* calls objects.filter exactly once, with the first value of each argument
\* supplied, and never all().
C31_AllWhenNoValueElseFilter ==
    vargs # <<>> =>
        LET args == vargs[1]
        IN  IF \A n \in ArgNames : ArgsGet(args, n) = <<>>
            THEN vcalls = <<AllCall>>
            ELSE vcalls = <<FilterCall(FirstValues(args).query_string,
                                       FirstValues(args).kwargs)>>

\* C31: a request whose first search value is missing or the empty string,
\* and which has no channel and no user value, calls objects.all() once and
\* never filter; any other request calls objects.filter exactly once, with
\* the first value of each argument supplied (None for a search that has
\* none), and never all().
C31_AllWhenNothingToFilterElseFilter ==
    vargs # <<>> =>
        LET args == vargs[1]
            first == FirstValues(args)
        IN  IF /\ first.query_string \in {<<>>, <<"">>}
               /\ ArgsGet(args, "channel") = <<>>
               /\ ArgsGet(args, "user") = <<>>
            THEN vcalls = <<AllCall>>
            ELSE vcalls = <<FilterCall(first.query_string, first.kwargs)>>

\* A request with two search values, two channel values and no user was
\* answered with one filter call of the first of each.
C31_Witness ==
    /\ vargs # <<>>
    /\ ArgsGet(vargs[1], "search") = <<"foo", "bar">>
    /\ ArgsGet(vargs[1], "channel") = <<"#a", "#b">>
    /\ vargs[1]["user"] = <<>>
    /\ vcalls = <<FilterCall(<<"foo">>, {<<"channel", "#a">>})>>

\* ======================================================= bot.py (signedOn)
\* LogBot.signedOn: the calls it makes of the IRC client (setNick, join).

JoinNames == {"#channel1", "#channel2", "#channel3", "#channel4"}

\* self.factory.channels; a name may be listed twice
JoinLists == UNION {[1..n -> JoinNames] : n \in 0..MaxJoinList}

JoinCallsReversed(channels) ==
    Reverse([i \in 1..Len(channels) |-> <<"join", channels[i]>>])

\* for channel_name in self.factory.channels: self.join(channel_name)
JoinCalls(channels) == [i \in 1..Len(channels) |-> <<"join", channels[i]>>]

\* signedOn: self.setNick(self._attemptedNick), then the joins
SignedOnCalls(channels) ==
    << <<"setNick", "_attemptedNick">> >> \o JoinCalls(channels)

\* LogBot built by a factory with a channel list
SignInit ==
    /\ factoryChannels \in JoinLists
    /\ ircCalls = <<>>
    /\ nsign = 0
    /\ BufIdle
    /\ BotIdle
    /\ AgentIdle
    /\ ConnIdle
    /\ QsIdle
    /\ UtilsIdle
    /\ FileIdle
    /\ ViewIdle
    /\ GetIdle

\* LogBot.signedOn()
SignedOn ==
    /\ nsign < MaxSignOns
    /\ ircCalls' = ircCalls \o SignedOnCalls(factoryChannels)
    /\ nsign' = nsign + 1
    /\ UNCHANGED factoryChannels
    /\ UNCHANGED exceptSign

SignNext == SignedOn

SignSpec == SignInit /\ [][SignNext]_vars

\* The join calls among the calls made so far, in order.
JoinsMade == SelectSeq(ircCalls, LAMBDA call : call[1] = "join")

\* C32: on sign-on the bot joins every channel of the configured list exactly
\* once (one join per entry of the list), in list order, and joins no other
\* channel.
C32_JoinsConfiguredChannelsInOrder ==
    /\ Len(JoinsMade) = nsign * Len(factoryChannels)
    /\ \A k \in 1..Len(JoinsMade) :
          JoinsMade[k] =
              <<"join", factoryChannels[((k - 1) % Len(factoryChannels)) + 1]>>

\* The bot signed on once with a list of three different channels and has
\* made three joins.
C32_Witness ==
    /\ nsign = 1
    /\ factoryChannels = <<"#channel2", "#channel1", "#channel3">>
    /\ Len(JoinsMade) = 3

\* ============================================= loggers.py (further claims)

\* While a flush is in flight, every message that no earlier flush captured
\* is either in the batch that flush captured or in the buffer, never in both
\* and never in neither.
SwapPartition ==
    \A k \in 1..Len(flights) :
       \A e \in flights[k].batch[1]..nlogged :
          (e \in Range(flights[k].batch)) # InBuffer(e)

\* A message in the buffer while a flush is in flight was logged after that
\* flush swapped the buffer.
LoggedInFlight(e) == e <= nlogged /\ InBuffer(e) /\ flights # <<>>

\* C33: the swap is atomic with respect to log(): while a flush is in flight
\* each logged message is in exactly one of the captured batch and the new
\* buffer, and a message logged while a flush is in flight is attempted by a
\* later flush (timer, worker threads and resumptions scheduled fairly).
C33_SwapAtomicAndLaterAttempted ==
    /\ []SwapPartition
    /\ \A e \in 1..MaxEvents : LoggedInFlight(e) ~> (Calls(e) >= 1)

\* C34: once a flush has ended, every message it captured was passed to the
\* wrapped logger's log in that flush, also the messages that came after one
\* for which the wrapped logger failed; and every message is delivered or in
\* the buffer again.
C34_WholeBatchAttempted ==
    flights = <<>> =>
        \A e \in 1..nlogged :
           /\ ~InBuffer(e) => Calls(e) >= 1
           /\ Delivered(e) \/ InBuffer(e)

\* ============================================ queryset.py (further claims)

\* C35: when the search that count(), results or facets starts raises, the
\* call raises, the queryset stays DIRTY and its cached documents, facets,
\* total, query and pagination are as before, so the next access searches
\* again.
C35_FailedSearchLeavesQuerysetDirty ==
    (qlog.op \in {"count", "results", "facets"} /\ ~qlog.ok) =>
        /\ qlog.ret.kind = "raised"
        /\ qlog.searches = 1
        /\ qs = qlog.pre
        /\ qs.need_refresh
        /\ WillRefresh(qs)

\* An accessor failed on a queryset that held the documents of an earlier
\* evaluation and had been changed since.
C35_Witness ==
    /\ qlog.op \in {"count", "results", "facets"}
    /\ ~qlog.ok
    /\ qs.results # <<>>
    /\ qs.total_results # <<>>
    /\ qs.need_refresh

\* ================================================= bot.py (further claims)

\* C36: a message or an action whose author is on the ignore list when it is
\* received is not passed to writeLog, whatever ignore and unignore commands
\* came before.
C36_IgnoredActorNeverLogged ==
    (lastCb.name \in {"privmsg", "action", "ctcpQuery_ACTION"}
        /\ lastCb.ignored) => lastCb.writes = 0

\* ============================================= loggers.py (order of calls)

\* The calls of the wrapped logger's log that a worker thread has been given
\* and that have not returned.
RunningCalls == {k \in 1..Len(flights) : flights[k].st = "running"}

\* C37: while the wrapped logger has never failed, it is passed the messages
\* in the order in which they were passed to log(), within a flush and from
\* one flush to the next, and no call of it starts before the former one
\* has returned.
C37_SinkCallsInLogOrder ==
    NumFails = 0 =>
        /\ \A i \in 1..Len(sinkCalls) : sinkCalls[i][1] = i
        /\ Cardinality(RunningCalls) <= 1
        /\ \A k \in RunningCalls :
              flights[k].batch[flights[k].i] = Len(sinkCalls) + 1

\* The first message went to the wrapped logger in one flush and the second
\* in the next, which also captured the third and has not passed it on yet.
C37_Witness ==
    /\ NumFails = 0
    /\ Len(sinkCalls) = 2
    /\ Len(flights) = 1
    /\ flights[1].batch = <<2, 3>>

\* ============================================== search.py (further claims)

RECURSIVE ScoreSum(_, _)
\* The sum of the scores of the hosts 1..n.
ScoreSum(scores, n) == IF n = 0 THEN 0 ELSE scores[n] + ScoreSum(scores, n - 1)

\* The host table as it is: the hosts it was built with, no score above 0,
\* and the scores adding up to minus the number of failed attempts.
HostTableInv ==
    /\ DOMAIN hostScores = 1..Len(hostOrder)
    /\ \A h \in DOMAIN hostScores : hostScores[h] <= 0
    /\ ScoreSum(hostScores, Len(hostOrder)) = 0 - nfailed

\* What a step does to the host table: the hosts stay, no score goes up, a
\* failed attempt takes exactly 1 off exactly one score, and nothing else
\* changes a score.
HostTableStep ==
    /\ DOMAIN hostScores' = DOMAIN hostScores
    /\ \A h \in DOMAIN hostScores : hostScores'[h] <= hostScores[h]
    /\ IF nfailed' = nfailed + 1
       THEN \E h \in DOMAIN hostScores :
               /\ hostScores'[h] = hostScores[h] - 1
               /\ \A g \in DOMAIN hostScores \ {h} :
                     hostScores'[g] = hostScores[g]
       ELSE hostScores' = hostScores

\* C38: after any sequence of requests the host table holds the same hosts,
\* every score is <= 0 and never goes up, each failed attempt takes exactly 1
\* off exactly one score, and the scores add up to minus the number of failed
\* attempts.
C38_HostTableInvariant == []HostTableInv /\ [][HostTableStep]_vars

\* Two requests were made, three attempts or more failed, and one host has
\* failed twice.
C38_Witness ==
    /\ nreq = 2
    /\ nfailed >= 3
    /\ \E h \in DOMAIN hostScores : hostScores[h] = -2
    /\ \E h \in DOMAIN hostScores : hostScores[h] = 0

\* ================================================ models.py (manager.get)
\* ElasticsearchManager.get makes two store requests, one for the first
\* count() and one for qs[0]; the store is a remote server, and documents may
\* be indexed or deleted between the two.

GetArgs ==
    {[query_string |-> <<>>, kwargs |-> << <<"channel", "#a">> >>],
     [query_string |-> <<>>, kwargs |-> << <<"user", "bob">> >>],
     [query_string |-> <<"*:*">>, kwargs |-> <<>>]}

\* get() after its two count() calls: MultipleObjectsReturned, DoesNotExist,
\* or on to qs[0].
AfterCounts(count) ==
    IF count > 1 THEN Ret("MultipleObjectsReturned", 0)
    ELSE IF count < 1 THEN Ret("DoesNotExist", 0)
    ELSE Ret("none", 0)

\* ElasticsearchManager over an index of up to MaxDocs documents
GetInit ==
    /\ gdocs \in Indexes
    /\ gqs = <<>>
    /\ gcall = NoGet
    /\ nget = 0
    /\ BufIdle
    /\ BotIdle
    /\ AgentIdle
    /\ ConnIdle
    /\ QsIdle
    /\ UtilsIdle
    /\ FileIdle
    /\ ViewIdle
    /\ SignIdle

\* get(query_string, **kwargs) up to its second store request: the queryset
\* is built, the first count() searches (the search may raise), the second
\* count() finds the queryset evaluated, and the two tests are made.
GetCounts ==
    /\ gcall.pc # "counted"
    /\ nget < MaxGets
    /\ \E args \in GetArgs, ok \in BOOLEAN :
          LET q == NewQueryset(ParseQuery(args.query_string, args.kwargs))
              counted == Refresh(q, gdocs)
              after == AfterCounts(CountOf(counted).v)
          IN  IF ~ok
              THEN /\ gqs' = <<RefreshRaises(q)>>
                   /\ gcall' = [pc |-> "done", args |-> <<args>>,
                                ret |-> Ret("raised", 0)]
              ELSE /\ gqs' = <<counted>>
                   /\ gcall' = [pc |-> IF after.kind = "none" THEN "counted"
                                       ELSE "done",
                                args |-> <<args>>, ret |-> after]
    /\ nget' = nget + 1
    /\ UNCHANGED gdocs
    /\ UNCHANGED exceptGet

\* return qs[0]: __getitem__ sets _need_refresh, results searches again (the
\* search may raise) and the list is indexed.
GetFirst ==
    /\ gcall.pc = "counted"
    /\ \E ok \in BOOLEAN :
          LET dirty == [gqs[1] EXCEPT !.need_refresh = TRUE]
          IN  IF ~ok
              THEN /\ gqs' = <<RefreshRaises(dirty)>>
                   /\ gcall' = [gcall EXCEPT !.pc = "done",
                                             !.ret = Ret("raised", 0)]
              ELSE /\ gqs' = <<Refresh(dirty, gdocs)>>
                   /\ gcall' = [gcall EXCEPT
                                   !.pc = "done",
                                   !.ret = ItemAt(Refresh(dirty, gdocs).results,
                                                  0)]
    /\ UNCHANGED <<gdocs, nget>>
    /\ UNCHANGED exceptGet

\* Another client of the store indexes or deletes documents.
StoreChanges ==
    /\ \E D \in Indexes : D # gdocs /\ gdocs' = D
    /\ UNCHANGED <<gqs, gcall, nget>>
    /\ UNCHANGED exceptGet

GetNext ==
    \/ GetCounts
    \/ GetFirst
    \/ StoreChanges

GetSpec == GetInit /\ [][GetNext]_vars

\* C39: a get() call whose store requests were answered ends in one of three
\* ways: it returns a document, raises MultipleObjectsReturned or raises
\* DoesNotExist; it never ends with an out-of-range error, also when
\* documents were added or deleted between its store requests.
C39_GetHasThreeOutcomes ==
    (gcall.pc = "done" /\ gcall.ret.kind # "raised") =>
        gcall.ret.kind \in {"doc", "MultipleObjectsReturned", "DoesNotExist"}

\* ================================================ queryset.py (pagination)

\* ElasticsearchClient.search: the size and from URL parameters it sends,
\* `if size:` and `if offset:` (<<>> when the parameter is left out).
SearchParams(size, offset) ==
    [size |-> IF size # 0 THEN <<size>> ELSE <<>>,
     from |-> IF offset # 0 THEN <<offset>> ELSE <<>>]

\* C40: after any sequence of accepted slices the offset of the queryset is
\* >= 0 and its size is >= 0, so the size and from parameters sent to the
\* store are never negative.
C40_PaginationNeverNegative ==
    /\ qs.offset >= 0
    /\ qs.size >= 0
    /\ LET params == SearchParams(qs.size, qs.offset)
       IN  /\ params.size # <<>> => params.size[1] >= 0
           /\ params.from # <<>> => params.from[1] >= 0

====
